---- MODULE Spec2Model ----
(***************************************************************************)
(* Model of the AutoRank batch-upload orchestrator.                        *)
(*                                                                         *)
(* Three builds of the orchestrator live in the repository:                *)
(*   "legacy"   the earlier App component (simulation only),               *)
(*   "sim"      the current App component running in a plain browser,      *)
(*   "electron" the current App component handing the job to the Electron  *)
(*              main process over IPC.                                     *)
(* The renderer state (status, stats, logs) is React state: observers see  *)
(* it between macrotasks, so every action below runs one handler from one  *)
(* await to the next.                                                      *)
(***************************************************************************)
EXTENDS Integers, Sequences, FiniteSets, TLC

\* ------------------------------------------------------------------ bounds
MaxRows == 3
MaxBatchSize == 2
MaxStopClicks == 1
MaxFetches == 1
MaxTextLen == 5
MaxEvents == 3

\* Iterations of the main-process loop explored when it has no upper limit.
MaxIter == MaxRows

\* ------------------------------------------------------------------ enums
IDLE == "IDLE"
RUNNING == "RUNNING"
COMPLETED == "COMPLETED"
FAILED == "FAILED"
PAUSED == "PAUSED"
JobStatus == {IDLE, RUNNING, COMPLETED, FAILED, PAUSED}

INFO == "INFO"
SUCCESS == "SUCCESS"
WARNING == "WARNING"
ERROR == "ERROR"
SYSTEM == "SYSTEM"
LogLevel == {INFO, SUCCESS, WARNING, ERROR, SYSTEM}

SimulationScenario == {"SUCCESS", "ERROR_VPN", "ERROR_AUTH", "ERROR_UPLOAD"}

AppModes == {"legacy", "sim", "electron"}

\* Math.ceil(n / 0) for n > 0.
Infinity == 1000000

\* ------------------------------------------------------------------ strings
\* A string is a sequence of one-character strings.
Str_empty == << >>
Str_u == <<"u">>
Str_error == <<"e", "r", "r", "o", "r">>
Str_abc == <<"a", "b", "c">>
Str_Fail1 == <<"F", "a", "i", "l", "1">>
Str_good == <<"g", "o", "o", "d">>

Usernames == {Str_empty, Str_u, Str_error}
Passwords == {Str_empty, Str_abc, Str_Fail1, Str_good}

\* The username/password pairs typed into the form.
Credentials ==
  { <<Str_empty, Str_good>>, <<Str_u, Str_empty>>, <<Str_u, Str_abc>>,
    <<Str_u, Str_Fail1>>, <<Str_u, Str_good>>, <<Str_error, Str_good>> }

\* String.prototype.includes
Includes(s, sub) ==
  \E k \in 0..(Len(s) - Len(sub)) : SubSeq(s, k + 1, k + Len(sub)) = sub

LowerChar(c) ==
  CASE c = "F" -> "f"
    [] c = "W" -> "w"
    [] c = "E" -> "e"
    [] c = "I" -> "i"
    [] OTHER -> c

\* String.prototype.toLowerCase
ToLowerCase(s) == [k \in 1..Len(s) |-> LowerChar(s[k])]

BadWords ==
  { <<"w", "r", "o", "n", "g">>, <<"e", "r", "r", "o", "r">>,
    <<"f", "a", "i", "l">>, <<"i", "n", "v", "a", "l", "i", "d">> }

\* ------------------------------------------------------------------ raw data
\* Raw text is a sequence of lines, a line is a sequence of comma-separated
\* fields.  A line holding one empty or blank field is a blank line.
HeaderLine == <<"id", "name">>
GoodRow == <<"x", "y">>
BadRow == <<"x">>
BlankLine == <<" ">>

IsBlankLine(line) == line = <<"">> \/ line = BlankLine

Repeat(x, n) == [k \in 1..n |-> x]

RawDatas ==
  { << >>, <<BlankLine>>, <<BlankLine, HeaderLine, BadRow, GoodRow, BlankLine>> }
  \cup { <<HeaderLine>> \o Repeat(GoodRow, n) : n \in 0..MaxRows }

BatchSizes == {-1, 0} \cup (1..MaxBatchSize)

RECURSIVE TrimLeft(_)
TrimLeft(text) ==
  IF text # << >> /\ IsBlankLine(Head(text)) THEN TrimLeft(Tail(text)) ELSE text

RECURSIVE TrimRight(_)
TrimRight(text) ==
  IF text # << >> /\ IsBlankLine(text[Len(text)])
  THEN TrimRight(SubSeq(text, 1, Len(text) - 1))
  ELSE text

\* String.prototype.trim on the whole text: blank lines at both ends go.
Trim(text) == TrimRight(TrimLeft(text))

\* csvText.trim().split('\n'): the empty string splits into one empty line.
SplitLines(text) == IF Trim(text) = << >> THEN << <<"">> >> ELSE Trim(text)

RECURSIVE ParseRows(_, _, _)
ParseRows(lines, headers, k) ==
  IF k > Len(lines) THEN << >>
  ELSE IF Len(lines[k]) # Len(headers)
       THEN ParseRows(lines, headers, k + 1)
       ELSE <<[row |-> k - 1, fields |-> lines[k]]>> \o ParseRows(lines, headers, k + 1)

parseCSV(csvText) ==
  LET lines == SplitLines(csvText) IN
  IF Len(lines) < 2 THEN << >> ELSE ParseRows(lines, lines[1], 2)

\* parseCSV and trim tabulated once over the raw texts of the model.
ParsedTable == [r \in RawDatas |-> parseCSV(r)]
TrimmedTable == [r \in RawDatas |-> Trim(r)]
Parsed(rawData) == ParsedTable[rawData]
Trimmed(rawData) == TrimmedTable[rawData]

\* ------------------------------------------------------------------ arrays
Min(a, b) == IF a < b THEN a ELSE b
Max(a, b) == IF a > b THEN a ELSE b

\* Array.prototype.slice(start, end) with zero-based, possibly negative indices.
Slice(array, start, end) ==
  LET n == Len(array)
      from == IF start < 0 THEN Max(n + start, 0) ELSE Min(start, n)
      to == IF end < 0 THEN Max(n + end, 0) ELSE Min(end, n)
  IN  IF from >= to THEN << >> ELSE SubSeq(array, from + 1, to)

\* The loop of chunkArray ends only when the index can pass array.length.
ChunkTerminates(array, size) == Len(array) = 0 \/ size > 0

RECURSIVE ChunkFrom(_, _, _)
ChunkFrom(array, size, k) ==
  IF k < Len(array)
  THEN <<Slice(array, k, k + size)>> \o ChunkFrom(array, size, k + size)
  ELSE << >>

\* A batcher that keeps the full batches only.
chunkArray_fullOnly(array, size) ==
  SelectSeq(ChunkFrom(array, size, 0), LAMBDA b : Len(b) = size)

chunkArray(array, size) == ChunkFrom(array, size, 0)

\* Math.ceil(n / size) for an integer n >= 0 and any integer size.
CeilDiv(n, size) ==
  IF size = 0 THEN (IF n = 0 THEN 0 ELSE Infinity)
  ELSE IF size > 0 THEN (n + size - 1) \div size
  ELSE 0 - (n \div (0 - size))

\* ------------------------------------------------------------------ state
VARIABLES
  appMode,        \* which build runs: "legacy", "sim" or "electron"
  status,         \* React state: JobStatus
  stats,          \* React state: JobStats
  logs,           \* React state: LogEntry[]
  stopRef,        \* useRef(false): the renderer's stop flag
  job,            \* values captured by the running runAutomation closure
  pc,             \* the await at which runAutomation is suspended
  i,              \* loop index of runAutomation
  processedTotal, \* let processedTotal of runAutomation
  mjob,           \* payload of the start-job message being served
  mpc,            \* the await at which the start-job handler is suspended
  mi,             \* loop index of the start-job handler
  processedCount, \* let processedCount of the start-job handler
  isStopped,      \* main-process global stop flag
  toMain,         \* IPC messages renderer -> main, in flight
  toRenderer,     \* IPC messages main -> renderer, in flight
  hist,           \* what the current run has invoked so far
  fetch           \* handleFetchSheet: isFetching, its pending await and timers

rendererVars == <<status, stats, logs, stopRef, job, pc, i, processedTotal>>
mainVars == <<mjob, mpc, mi, processedCount, isStopped>>
vars == <<appMode, fetch, status, stats, logs, stopRef, job, pc, i, processedTotal,
          mjob, mpc, mi, processedCount, isStopped, toMain, toRenderer, hist>>

URL_LOGIN == "https://withpassion.decathlon.net/rank2/control/login"

Msg(text, user, nums) == [text |-> text, user |-> user, nums |-> nums]

\* The entry addLog appends (id and timestamp are not modelled).
LogEntry(level, message, step, hasScreenshot) ==
  [level |-> level, message |-> message, step |-> step, hasScreenshot |-> hasScreenshot]

\* The entry sendLog sends: it carries no hasScreenshot field.
SentLog(level, message, step) ==
  [level |-> level, message |-> message, step |-> step]

BatchStep(batchId) ==
  CASE batchId = 1 -> "BATCH-1"
    [] batchId = 2 -> "BATCH-2"
    [] batchId = 3 -> "BATCH-3"
    [] batchId = 4 -> "BATCH-4"
    [] batchId = 5 -> "BATCH-5"
    [] OTHER -> "BATCH-n"

BatchSteps == {BatchStep(b) : b \in 1..6}

ZeroStats ==
  [totalRecords |-> 0, processedRecords |-> 0, successCount |-> 0,
   errorCount |-> 0, batchesTotal |-> 0, batchesCompleted |-> 0]

\* The object runAutomation passes to setStats when a run starts.
InitialStats(total, nBatches) ==
  [totalRecords |-> total, processedRecords |-> 0, successCount |-> 0,
   errorCount |-> 0, batchesTotal |-> nBatches, batchesCompleted |-> 0]

\* An updater that counts every batch as uploaded.
BatchStats_allSuccess(prev, newProcessedTotal, index, size, batchSuccess) ==
  [prev EXCEPT
     !.processedRecords = newProcessedTotal,
     !.batchesCompleted = index + 1,
     !.successCount = prev.successCount + size]

\* An updater that reports the size of the last batch instead of the running
\* total of processed records.
BatchStats_lastBatchOnly(prev, newProcessedTotal, index, size, batchSuccess) ==
  [prev EXCEPT
     !.processedRecords = size,
     !.batchesCompleted = index + 1,
     !.successCount = IF batchSuccess THEN prev.successCount + size ELSE prev.successCount,
     !.errorCount = IF ~batchSuccess THEN prev.errorCount + size ELSE prev.errorCount]

\* The updater runAutomation passes to setStats after a batch returned.
BatchStats(prev, newProcessedTotal, index, size, batchSuccess) ==
  [prev EXCEPT
     !.processedRecords = newProcessedTotal,
     !.batchesCompleted = index + 1,
     !.successCount = IF batchSuccess THEN prev.successCount + size ELSE prev.successCount,
     !.errorCount = IF ~batchSuccess THEN prev.errorCount + size ELSE prev.errorCount]

\* setStats(prev => ({ ...prev, ...newStats })) of the job-stats listener.
MergeStats(prev, newStats) ==
  [k \in DOMAIN prev |-> IF k \in DOMAIN newStats THEN newStats[k] ELSE prev[k]]

NoJob ==
  [username |-> Str_empty, password |-> Str_empty, scenario |-> "SUCCESS",
   batchSize |-> 0, parsedData |-> << >>, batches |-> << >>]

\* History of the current run, kept for the properties only: the outcome of
\* login, the number of navigations, the upload invocations, the Stop clicks
\* and where the first one fell, whether the loop took its stop branch, and
\* the run's input.
NoHist ==
  [login |-> "none", nav |-> 0, uploads |-> << >>, stopClicks |-> 0,
   stopAt |-> [pc |-> "none", done |-> 0], observedStop |-> FALSE,
   initStats |-> ZeroStats, total |-> 0, batchSize |-> 0]

NewHist(initial, total, batchSize) ==
  [NoHist EXCEPT !.login = "pending", !.initStats = initial,
                 !.total = total, !.batchSize = batchSize]

\* Nothing fetched yet: isFetching is false, no request and no timer pending.
NoFetch == [isFetching |-> FALSE, pc |-> "idle", timers |-> 0, clicks |-> 0]

Init ==
  /\ appMode \in AppModes
  /\ status = IDLE
  /\ stats = ZeroStats
  /\ logs = << >>
  /\ stopRef = FALSE
  /\ job = NoJob
  /\ pc = "idle"
  /\ i = 0
  /\ processedTotal = 0
  /\ mjob = NoJob
  /\ mpc = "idle"
  /\ mi = 0
  /\ processedCount = 0
  /\ isStopped = FALSE
  /\ toMain = << >>
  /\ toRenderer = << >>
  /\ hist = NoHist
  /\ fetch = NoFetch

\* ------------------------------------------------------------------ history
UploadsStarted(h) == Len(h.uploads)
UploadsDone(h) == Len(SelectSeq(h.uploads, LAMBDA u : u.result # "pending"))

StartUpload(h, batchId, recordCount) ==
  [h EXCEPT !.uploads = Append(@, [batchId |-> batchId, recordCount |-> recordCount,
                                   result |-> "pending"])]

\* An upload that is started and not awaited: the caller goes on while it is
\* still in progress.
EndUpload_notAwaited(h, batchSuccess) == h

EndUpload(h, batchSuccess) ==
  [h EXCEPT !.uploads[Len(h.uploads)].result = IF batchSuccess THEN "ok" ELSE "failed"]

\* ------------------------------------------------------------------ Start
\* What the specification calls the preconditions of Start.
PreconditionNotMet(username, password, rawData) ==
  \/ username = Str_empty
  \/ password = Str_empty
  \/ Trimmed(rawData) = << >>
  \/ Len(Parsed(rawData)) = 0

\* The two early returns every build of runAutomation begins with.
AlertsAndReturns(username, password, rawData) ==
  \/ username = Str_empty
  \/ password = Str_empty
  \/ Trimmed(rawData) = << >>

\* The third early return of the current build: no record parsed.
NoValidData(rawData) == Len(Parsed(rawData)) = 0

InitLogs(mode, total, nBatches, batchSize) ==
  << LogEntry(SYSTEM,
              Msg(IF mode = "legacy" THEN "Initializing Automation Agent v1.0..."
                  ELSE "Initializing Automation Agent v1.0 (Simulation Mode)...",
                  Str_empty, << >>), "INIT", FALSE),
     LogEntry(INFO, Msg("Target URL: ", Str_empty, << >>), "INIT", FALSE),
     LogEntry(SUCCESS, Msg("Data parsed successfully. records found.", Str_empty, <<total>>),
              "DATA", FALSE),
     LogEntry(INFO, Msg("Split into batch(es) of max records.", Str_empty,
                        <<nBatches, batchSize>>), "DATA", FALSE) >>

LoginFirstLog ==
  LogEntry(INFO, Msg("Navigating to", Str_empty, << >>), "LOGIN", FALSE)

\* A Start that leaves the stop flag as the run before left it.
StopFlagAtStart_kept(flag) == flag

\* stopRef.current = false in runAutomation, isStopped = false in the
\* start-job handler: the value a Start gives the stop flag.
StopFlagAtStart(flag) == FALSE

\* runAutomation of the simulated builds, from the click to the first await.
StartSimulated(username, password, scenario, rawData, batchSize) ==
  LET parsedData == Parsed(rawData)
      batches == chunkArray(parsedData, batchSize)
  IN
  /\ appMode \in {"legacy", "sim"}
  /\ UNCHANGED <<appMode, fetch, mjob, mpc, mi, processedCount, isStopped, toMain, toRenderer>>
  /\ IF AlertsAndReturns(username, password, rawData)
        \/ (appMode = "sim" /\ NoValidData(rawData))
     THEN UNCHANGED <<status, stats, logs, stopRef, job, pc, i, processedTotal, hist>>
     ELSE IF appMode = "legacy" /\ NoValidData(rawData)
     THEN /\ status' = FAILED
          /\ logs' = SubSeq(InitLogs(appMode, 0, 0, batchSize), 1, 2)
                     \o << LogEntry(ERROR, Msg("Failed to parse CSV data. Check format.",
                                               Str_empty, << >>), "DATA", FALSE) >>
          /\ stopRef' = StopFlagAtStart(stopRef)
          /\ pc' = "done"
          /\ hist' = [NoHist EXCEPT !.initStats = stats]
          /\ UNCHANGED <<stats, job, i, processedTotal>>
     ELSE IF ~ChunkTerminates(parsedData, batchSize)
     THEN \* chunkArray never returns: the page is stuck in this macrotask and
          \* none of the queued state updates is ever rendered.
          /\ stopRef' = StopFlagAtStart(stopRef)
          /\ pc' = "hung"
          /\ UNCHANGED <<status, stats, logs, job, i, processedTotal, hist>>
     ELSE /\ status' = RUNNING
          /\ stopRef' = StopFlagAtStart(stopRef)
          /\ stats' = InitialStats(Len(parsedData), Len(batches))
          /\ logs' = InitLogs(appMode, Len(parsedData), Len(batches), batchSize)
                     \o <<LoginFirstLog>>
          /\ job' = [username |-> username,
                     password |-> IF appMode = "sim" THEN password ELSE Str_empty,
                     scenario |-> scenario, batchSize |-> batchSize,
                     parsedData |-> parsedData, batches |-> batches]
          /\ pc' = "login_d800"
          /\ i' = 0
          /\ processedTotal' = 0
          /\ hist' = NewHist(InitialStats(Len(parsedData), Len(batches)),
                              Len(parsedData), batchSize)

\* ------------------------------------------------------------------ login
IsInvalidPassword(password) ==
  \/ Len(password) < 4
  \/ \E w \in BadWords : Includes(ToLowerCase(password), w)

\* The condition under which simulateLogin logs the failure and returns false
\* after the credentials check (the VPN scenario has returned before).
CredentialsRejected(mode, username, password, scenario) ==
  IF mode = "legacy"
  THEN Includes(username, Str_error)
  ELSE scenario = "ERROR_AUTH" \/ Includes(username, Str_error) \/ IsInvalidPassword(password)

\* The status runAutomation sets when simulateLogin returned false.
StatusOnLoginFailure == FAILED

\* The events of simulateLogin.
LoginNetLog ==
  LogEntry(ERROR, Msg("Network Error: Host unreachable.", Str_empty, << >>), "NET", FALSE)

LoginVpnLog ==
  LogEntry(ERROR, Msg("CRITICAL: Corporate VPN connection not detected.", Str_empty, << >>),
           "SYS", FALSE)

\* A login that writes the password into its event.
LoginCheckLog_withPassword(username, password) ==
  LogEntry(INFO, Msg("Checking credentials for user: ", password, << >>), "AUTH", FALSE)

LoginCheckLog(username, password) ==
  LogEntry(INFO, Msg("Checking credentials for user: ", username, << >>), "AUTH", FALSE)

LoginSuccessLog ==
  LogEntry(SUCCESS, Msg("Login successful. Dashboard loaded.", Str_empty, << >>), "AUTH", TRUE)

\* simulateLogin after delay(800).
LoginAfterConnect ==
  /\ pc = "login_d800"
  /\ IF appMode = "sim" /\ job.scenario = "ERROR_VPN"
     THEN /\ logs' = Append(logs, LoginNetLog)
          /\ pc' = "login_vpn_d300"
     ELSE /\ logs' = Append(logs, LoginCheckLog(job.username, job.password))
          /\ pc' = "login_d1200"
  /\ UNCHANGED <<appMode, fetch, status, stats, stopRef, job, i, processedTotal, hist,
                 mjob, mpc, mi, processedCount, isStopped, toMain, toRenderer>>

\* A runAutomation that goes on to navigation whatever login returned.
NextPcAfterLogin_goesOn(loginSuccess, stopped) ==
  IF stopped THEN "done" ELSE "nav_d600"

\* Where runAutomation goes once simulateLogin returned: it returns when
\* login failed, it returns silently when the stop flag is set, else it enters
\* simulateNavigation.
NextPcAfterLogin(loginSuccess, stopped) ==
  IF ~loginSuccess THEN "done"
  ELSE IF stopped THEN "done"
  ELSE "nav_d600"

NavFirstLog == LogEntry(INFO, Msg("Accessing Main Dashboard...", Str_empty, << >>), "NAV", FALSE)

\* runAutomation from the return of simulateLogin to its next await.
AfterLogin(curLogs, loginSuccess) ==
  LET next == NextPcAfterLogin(loginSuccess, stopRef) IN
  /\ pc' = next
  /\ status' = IF loginSuccess THEN status ELSE StatusOnLoginFailure
  /\ IF next = "nav_d600"
     THEN /\ logs' = Append(curLogs, NavFirstLog)
          /\ hist' = [hist EXCEPT !.login = IF loginSuccess THEN "ok" ELSE "failed",
                                  !.nav = @ + 1]
     ELSE /\ logs' = curLogs
          /\ hist' = [hist EXCEPT !.login = IF loginSuccess THEN "ok" ELSE "failed"]

\* simulateLogin after delay(300) of the VPN scenario: it returns false.
LoginVpnFailed ==
  /\ pc = "login_vpn_d300"
  /\ AfterLogin(Append(logs, LoginVpnLog), FALSE)
  /\ UNCHANGED <<appMode, fetch, stats, stopRef, job, i, processedTotal,
                 mjob, mpc, mi, processedCount, isStopped, toMain, toRenderer>>

LoginFailureLogs(mode) ==
  IF mode = "legacy"
  THEN << LogEntry(ERROR, Msg("Authentication failed: Invalid credentials",
                              Str_empty, << >>), "AUTH", TRUE) >>
  ELSE << LogEntry(ERROR, Msg("Authentication failed: Invalid credentials or Account Locked.",
                              Str_empty, << >>), "AUTH", TRUE),
          LogEntry(SYSTEM, Msg("(Simulation Tip: Avoid using passwords containing wrong or error)",
                               Str_empty, << >>), "AUTH", FALSE) >>

\* simulateLogin after delay(1200): it returns the outcome of the check.
LoginAfterCheck ==
  /\ pc = "login_d1200"
  /\ IF CredentialsRejected(appMode, job.username, job.password, job.scenario)
     THEN AfterLogin(logs \o LoginFailureLogs(appMode), FALSE)
     ELSE AfterLogin(Append(logs, LoginSuccessLog), TRUE)
  /\ UNCHANGED <<appMode, fetch, stats, stopRef, job, i, processedTotal,
                 mjob, mpc, mi, processedCount, isStopped, toMain, toRenderer>>

\* ------------------------------------------------------------------ navigation
NavAfterDashboard ==
  /\ pc = "nav_d600"
  /\ logs' = Append(logs, LogEntry(INFO, Msg("Clicking 'Rank 2' tab", Str_empty, << >>),
                                   "NAV", FALSE))
  /\ pc' = "nav_d500"
  /\ UNCHANGED <<appMode, fetch, status, stats, stopRef, job, i, processedTotal, hist,
                 mjob, mpc, mi, processedCount, isStopped, toMain, toRenderer>>

NavAfterTab ==
  /\ pc = "nav_d500"
  /\ logs' = Append(logs, LogEntry(INFO, Msg("Clicking 'Catalog' sub-menu", Str_empty, << >>),
                                   "NAV", FALSE))
  /\ pc' = "nav_d800"
  /\ UNCHANGED <<appMode, fetch, status, stats, stopRef, job, i, processedTotal, hist,
                 mjob, mpc, mi, processedCount, isStopped, toMain, toRenderer>>

\* ------------------------------------------------------------------ batch loop
StopLog == LogEntry(WARNING, Msg("Job stopped by user.", Str_empty, << >>), "STOP", FALSE)

CompletionLogs(mode) ==
  IF mode = "legacy"
  THEN << LogEntry(SUCCESS, Msg("All batches processed.", Str_empty, << >>), "DONE", FALSE),
          LogEntry(INFO, Msg("Generating Final Report...", Str_empty, << >>), "DONE", FALSE) >>
  ELSE << LogEntry(SUCCESS, Msg("All batches processed.", Str_empty, << >>), "DONE", FALSE) >>

\* A loop that never looks at the stop flag.
ObservesStop_never(stopped) == FALSE

\* A loop that reports a stopped run as completed.
StatusOnStop_completed == COMPLETED

\* The test at the top of the loop body: does the loop stop here?
ObservesStop(stopped) == stopped

\* The status the loop sets when it observes the stop flag.
StatusOnStop == PAUSED

\* Whether the loop goes on to the inter-batch delay after batch index (0-based).
HasNextBatch(index, nBatches) == index < nBatches - 1

\* One evaluation of the for-loop head with the given index, and the loop body
\* (or the code after the loop) up to the next await.
LoopTop(curLogs, index, curStats, curTotal, curHist) ==
  /\ i' = index
  /\ stats' = curStats
  /\ processedTotal' = curTotal
  /\ IF index < Len(job.batches)
     THEN IF ObservesStop(stopRef)
          THEN /\ logs' = Append(curLogs, StopLog)
               /\ status' = StatusOnStop
               /\ pc' = "done"
               /\ hist' = [curHist EXCEPT !.observedStop = TRUE]
          ELSE /\ logs' = Append(curLogs,
                            LogEntry(INFO, Msg("Preparing Batch # ( records)...", Str_empty,
                                               <<index + 1, Len(job.batches[index + 1])>>),
                                     BatchStep(index + 1), FALSE))
               /\ status' = status
               /\ pc' = "up_d400"
               /\ hist' = StartUpload(curHist, index + 1, Len(job.batches[index + 1]))
     ELSE /\ logs' = curLogs \o CompletionLogs(appMode)
          /\ status' = COMPLETED
          /\ pc' = "done"
          /\ hist' = curHist

\* simulateNavigation after delay(800); runAutomation then enters the loop.
NavAfterCatalog ==
  /\ pc = "nav_d800"
  /\ LoopTop(Append(logs, LogEntry(SUCCESS, Msg("Catalog Control Panel loaded. Ready for input.",
                                                Str_empty, << >>), "NAV", FALSE)),
             0, stats, 0, hist)
  /\ UNCHANGED <<appMode, fetch, stopRef, job,
                 mjob, mpc, mi, processedCount, isStopped, toMain, toRenderer>>

UploadLogStep(from, to, level, text, nums) ==
  /\ pc = from
  /\ logs' = Append(logs, LogEntry(level, Msg(text, Str_empty, nums), BatchStep(i + 1), FALSE))
  /\ pc' = to
  /\ UNCHANGED <<appMode, fetch, status, stats, stopRef, job, i, processedTotal, hist,
                 mjob, mpc, mi, processedCount, isStopped, toMain, toRenderer>>

\* simulateUploadBatch after delay(400), delay(600), delay(300), delay(500).
UploadConvert ==
  UploadLogStep("up_d400", "up_d600", SYSTEM, "Converting JSON to .xlsx format for upload", << >>)

UploadLocate ==
  UploadLogStep("up_d600", "up_d300", SYSTEM, "Locating 'Choose File' input field...", << >>)

UploadSelect ==
  UploadLogStep("up_d300", "up_d500", INFO, "Selecting file: batch_.xlsx", <<i + 1>>)

UploadClick ==
  UploadLogStep("up_d500", "up_net", INFO, "Clicking 'UPDATE' button to initiate upload...", << >>)

\* The failure test of simulateUploadBatch; random is Math.random() < 0.01.
UploadFails(mode, scenario, random) ==
  IF mode = "legacy" THEN random ELSE scenario = "ERROR_UPLOAD" \/ random

\* runAutomation once simulateUploadBatch returned, up to its next await:
\* the outcome only selects the counter to raise, the loop goes on either way.
CountAndGoOn(curLogs, batchSuccess) ==
  LET size == Len(job.batches[i + 1])
      newTotal == processedTotal + size
      newStats == BatchStats(stats, newTotal, i, size, batchSuccess)
      newHist == EndUpload(hist, batchSuccess)
  IN
  IF HasNextBatch(i, Len(job.batches))
  THEN /\ logs' = Append(curLogs,
                    LogEntry(SYSTEM, Msg("Waiting 2s before next batch to ensure stability...",
                                         Str_empty, << >>), "WAIT", FALSE))
       /\ pc' = "wait_2s"
       /\ stats' = newStats
       /\ processedTotal' = newTotal
       /\ hist' = newHist
       /\ UNCHANGED <<status, i>>
  ELSE LoopTop(curLogs, i + 1, newStats, newTotal, newHist)

\* A loop that gives the run up at the first failed batch.
AfterBatch_failFast(curLogs, batchSuccess) ==
  IF batchSuccess THEN CountAndGoOn(curLogs, batchSuccess)
  ELSE /\ logs' = curLogs
       /\ status' = FAILED
       /\ pc' = "done"
       /\ hist' = EndUpload(hist, batchSuccess)
       /\ UNCHANGED <<stats, i, processedTotal>>

AfterBatch(curLogs, batchSuccess) == CountAndGoOn(curLogs, batchSuccess)

\* simulateUploadBatch after the network delay.
UploadAfterNetwork ==
  /\ pc = "up_net"
  /\ \E random \in BOOLEAN :
       IF UploadFails(appMode, job.scenario, random)
       THEN IF appMode = "legacy"
            THEN AfterBatch(Append(logs,
                     LogEntry(ERROR, Msg("Server responded with 500 Internal Error on Batch #",
                                         Str_empty, <<i + 1>>), BatchStep(i + 1), FALSE)),
                   FALSE)
            ELSE /\ logs' = logs \o
                     << LogEntry(ERROR, Msg("Server responded with 500 Internal Error on Batch #",
                                            Str_empty, <<i + 1>>), BatchStep(i + 1), FALSE),
                        LogEntry(WARNING, Msg("Retrying Batch # (Attempt 1/3)...",
                                              Str_empty, <<i + 1>>), BatchStep(i + 1), FALSE) >>
                 /\ pc' = "up_retry_d1000"
                 /\ UNCHANGED <<status, stats, i, processedTotal, hist>>
       ELSE AfterBatch(Append(logs,
                LogEntry(SUCCESS, Msg("Batch # upload confirmed. Status: Pending Processing",
                                      Str_empty, <<i + 1>>), BatchStep(i + 1), FALSE)),
              TRUE)
  /\ UNCHANGED <<appMode, fetch, stopRef, job,
                 mjob, mpc, mi, processedCount, isStopped, toMain, toRenderer>>

\* simulateUploadBatch after delay(1000) of the failed retry: it returns false.
UploadRetryFailed ==
  /\ pc = "up_retry_d1000"
  /\ AfterBatch(Append(logs,
         LogEntry(ERROR, Msg("Retry failed. Skipping batch to maintain workflow stability.",
                             Str_empty, << >>), BatchStep(i + 1), FALSE)),
       FALSE)
  /\ UNCHANGED <<appMode, fetch, stopRef, job,
                 mjob, mpc, mi, processedCount, isStopped, toMain, toRenderer>>

\* The inter-batch delay is over: the loop increments its index.
WaitOver ==
  /\ pc = "wait_2s"
  /\ LoopTop(logs, i + 1, stats, processedTotal, hist)
  /\ UNCHANGED <<appMode, fetch, stopRef, job,
                 mjob, mpc, mi, processedCount, isStopped, toMain, toRenderer>>

\* ------------------------------------------------------------------ Stop, Reset
CompletedUploads == UploadsDone(hist)

NoteStop(h, where) ==
  [h EXCEPT !.stopClicks = @ + 1,
            !.stopAt = IF h.stopClicks = 0
                       THEN [pc |-> where, done |-> UploadsDone(h)] ELSE @]

\* The main process sets isStopped: whether its handler is in the login phase,
\* in a batch or idle at that moment is noted for the first stop-job of the run.
NoteStopSet(h, where) ==
  IF h.stopClicks > 0 /\ h.stopAt.pc = "main"
  THEN [h EXCEPT !.stopAt = [pc |-> IF where \in {"idle", "batch_wait"} THEN where
                                    ELSE "main_login",
                             done |-> UploadsDone(h)]]
  ELSE h

\* handleStop; the Stop button is rendered while the status is RUNNING.
Stop ==
  /\ status = RUNNING
  /\ pc # "hung"
  /\ hist.stopClicks < MaxStopClicks
  /\ IF appMode = "electron"
     THEN /\ toMain' = Append(toMain, [channel |-> "stop-job"])
          /\ hist' = NoteStop(hist, "main")
          /\ UNCHANGED stopRef
     ELSE /\ stopRef' = TRUE
          /\ hist' = NoteStop(hist, pc)
          /\ UNCHANGED toMain
  /\ UNCHANGED <<appMode, fetch, status, stats, logs, job, pc, i, processedTotal,
                 mjob, mpc, mi, processedCount, isStopped, toRenderer>>

\* A reset that leaves the event log as it is.
handleReset_keepsLog(cur) == [status |-> IDLE, logs |-> cur.logs, stats |-> ZeroStats]

\* What handleReset makes of the observable state cur.
handleReset(cur) == [status |-> IDLE, logs |-> << >>, stats |-> ZeroStats]

\* The observable state: job status, event log and Stats.
Observable == [status |-> status, logs |-> logs, stats |-> stats]

\* handleReset; the Reset button is rendered in COMPLETED and FAILED.
Reset ==
  /\ status \in {COMPLETED, FAILED}
  /\ pc # "hung"
  /\ status' = handleReset(Observable).status
  /\ logs' = handleReset(Observable).logs
  /\ stats' = handleReset(Observable).stats
  /\ UNCHANGED <<appMode, fetch, stopRef, job, pc, i, processedTotal, hist,
                 mjob, mpc, mi, processedCount, isStopped, toMain, toRenderer>>

\* ------------------------------------------------------------------ Electron: renderer
\* runAutomation of the current build when window.electronAPI exists.  The
\* scenario selector is not rendered in this mode, so the scenario keeps its
\* default.
StartElectron(username, password, rawData, batchSize) ==
  LET parsedData == Parsed(rawData)
      initial == InitialStats(Len(parsedData), CeilDiv(Len(parsedData), batchSize))
  IN
  /\ appMode = "electron"
  /\ UNCHANGED <<appMode, fetch, stopRef, job, pc, i, processedTotal,
                 mjob, mpc, mi, processedCount, isStopped, toRenderer>>
  /\ IF AlertsAndReturns(username, password, rawData) \/ NoValidData(rawData)
     THEN UNCHANGED <<status, stats, logs, toMain, hist>>
     ELSE /\ status' = RUNNING
          /\ logs' = << LogEntry(SYSTEM, Msg("Handing over control to Electron Main Process...",
                                             Str_empty, << >>), "IPC", FALSE) >>
          /\ stats' = initial
          /\ toMain' = Append(toMain,
                         [channel |-> "start-job",
                          payload |-> [username |-> username, password |-> password,
                                       scenario |-> "SUCCESS", batchSize |-> batchSize,
                                       parsedData |-> parsedData, batches |-> << >>]])
          /\ hist' = NewHist(initial, Len(parsedData), batchSize)

\* The scenarios the form can hold: only the current browser build renders
\* the selector.
ScenariosOf(mode) == IF mode = "sim" THEN SimulationScenario ELSE {"SUCCESS"}

\* A click on Start with the given form contents; the button is rendered
\* whenever the status is not RUNNING.
StartWith(username, password, scenario, rawData, batchSize) ==
  /\ status # RUNNING
  /\ pc # "hung"
  /\ \/ StartSimulated(username, password, scenario, rawData, batchSize)
     \/ StartElectron(username, password, rawData, batchSize)

Start ==
  \E cred \in Credentials, rawData \in RawDatas, batchSize \in BatchSizes,
     scenario \in ScenariosOf(appMode) :
    StartWith(cred[1], cred[2], scenario, rawData, batchSize)

\* window.electronAPI.onLog listener.
OnLog ==
  /\ toRenderer # << >>
  /\ Head(toRenderer).channel = "job-log"
  /\ logs' = Append(logs, Head(toRenderer).log)
  /\ toRenderer' = Tail(toRenderer)
  /\ UNCHANGED <<appMode, fetch, status, stats, stopRef, job, pc, i, processedTotal, hist,
                 mjob, mpc, mi, processedCount, isStopped, toMain>>

\* window.electronAPI.onStatusChange listener.
OnStatusChange ==
  /\ toRenderer # << >>
  /\ Head(toRenderer).channel = "job-status"
  /\ status' = Head(toRenderer).status
  /\ toRenderer' = Tail(toRenderer)
  /\ UNCHANGED <<appMode, fetch, stats, logs, stopRef, job, pc, i, processedTotal, hist,
                 mjob, mpc, mi, processedCount, isStopped, toMain>>

\* window.electronAPI.onStatsUpdate listener.
OnStatsUpdate ==
  /\ toRenderer # << >>
  /\ Head(toRenderer).channel = "job-stats"
  /\ stats' = MergeStats(stats, Head(toRenderer).stats)
  /\ toRenderer' = Tail(toRenderer)
  /\ UNCHANGED <<appMode, fetch, status, logs, stopRef, job, pc, i, processedTotal, hist,
                 mjob, mpc, mi, processedCount, isStopped, toMain>>

\* ------------------------------------------------------------------ Electron: main
SendLog(queue, level, text, user, nums, step) ==
  Append(queue, [channel |-> "job-log", log |-> SentLog(level, Msg(text, user, nums), step)])

SendStatus(queue, newStatus) ==
  Append(queue, [channel |-> "job-status", status |-> newStatus])

\* A handler that counts the batch and tells nobody.
SendStats_dropped(queue, newStats) == queue

SendStats(queue, newStats) ==
  Append(queue, [channel |-> "job-stats", stats |-> newStats])

\* A snapshot that reports the loop index as the number of completed batches.
BatchStatsMessage_offByOne(newProcessedCount, index) ==
  [processedRecords |-> newProcessedCount, batchesCompleted |-> index,
   successCount |-> newProcessedCount]

\* The partial snapshot the start-job handler sends after a batch.
BatchStatsMessage(newProcessedCount, index) ==
  [processedRecords |-> newProcessedCount, batchesCompleted |-> index + 1,
   successCount |-> newProcessedCount]

\* The handler has returned: its parameters and locals are gone.
HandlerReturns ==
  /\ mpc' = "idle"
  /\ mjob' = NoJob
  /\ mi' = 0
  /\ processedCount' = 0

\* The catch block of the start-job handler.
Catch(queue) ==
  /\ toRenderer' = SendStatus(SendLog(queue, ERROR, "Critical Failure: ", Str_empty, << >>, "ERR"),
                              FAILED)
  /\ HandlerReturns

\* The status the handler reports after the loop.
FinalStatus(stopped) == IF stopped THEN PAUSED ELSE COMPLETED

\* The code after the loop of the start-job handler.
Finish(queue) ==
  /\ toRenderer' =
       IF ~isStopped
       THEN SendStatus(SendLog(queue, SUCCESS, "Automation Complete.", Str_empty, << >>, "DONE"),
                       FinalStatus(isStopped))
       ELSE SendStatus(queue, FinalStatus(isStopped))
  /\ HandlerReturns

\* const totalBatches of the start-job handler.
TotalBatches(data, batchSize) == CeilDiv(Len(data), batchSize)

\* const batchData of the start-job handler.
BatchData(data, batchSize, index) == Slice(data, index * batchSize, (index + 1) * batchSize)

\* One evaluation of the loop head of the start-job handler with the given
\* index, up to the next await.
MainLoopTop(queue, index, curCount, curHist) ==
  LET totalBatches == TotalBatches(mjob.parsedData, mjob.batchSize)
      batchData == BatchData(mjob.parsedData, mjob.batchSize, index)
  IN
  IF index < totalBatches
  THEN IF isStopped
       THEN /\ Finish(SendLog(queue, WARNING, "Job stopped by user.", Str_empty, << >>, "STOP"))
            /\ hist' = [curHist EXCEPT !.observedStop = TRUE]
       ELSE /\ index < MaxIter
            /\ toRenderer' = SendLog(queue, INFO, "Processing Batch / ( items)", Str_empty,
                                     <<index + 1, totalBatches, Len(batchData)>>,
                                     BatchStep(index + 1))
            /\ mpc' = "batch_wait"
            /\ mi' = index
            /\ processedCount' = curCount
            /\ mjob' = mjob
            /\ hist' = StartUpload(curHist, index + 1, Len(batchData))
  ELSE /\ Finish(queue)
       /\ hist' = curHist

\* ipcMain.on('start-job') up to the await of chromium.launch.
MainStartJob ==
  /\ toMain # << >>
  /\ Head(toMain).channel = "start-job"
  /\ mpc = "idle"
  /\ toMain' = Tail(toMain)
  /\ isStopped' = StopFlagAtStart(isStopped)
  /\ mjob' = Head(toMain).payload
  /\ toRenderer' = SendLog(SendStatus(toRenderer, RUNNING), SYSTEM,
                           "Launching Playwright Browser Engine...", Str_empty, << >>, "INIT")
  /\ mpc' = "launch"
  /\ mi' = 0
  /\ processedCount' = 0
  /\ UNCHANGED <<appMode, fetch, status, stats, logs, stopRef, job, pc, i, processedTotal, hist>>

\* ipcMain.on('stop-job').
MainStopJob ==
  /\ toMain # << >>
  /\ Head(toMain).channel = "stop-job"
  /\ toMain' = Tail(toMain)
  /\ isStopped' = TRUE
  /\ hist' = NoteStopSet(hist, mpc)
  /\ UNCHANGED <<appMode, fetch, status, stats, logs, stopRef, job, pc, i, processedTotal,
                 mjob, mpc, mi, processedCount, toRenderer>>

\* chromium.launch, newContext and newPage have settled.
MainLaunched ==
  /\ mpc = "launch"
  /\ \E throws \in BOOLEAN :
       IF throws THEN Catch(toRenderer)
       ELSE /\ toRenderer' = SendLog(toRenderer, INFO, "Navigating to ", Str_empty, << >>, "LOGIN")
            /\ mpc' = "goto"
            /\ UNCHANGED <<mjob, mi, processedCount>>
  /\ UNCHANGED <<appMode, fetch, status, stats, logs, stopRef, job, pc, i, processedTotal, hist,
                 isStopped, toMain>>

\* page.goto of the login page has settled.
MainGoto ==
  /\ mpc = "goto"
  /\ \E throws \in BOOLEAN :
       IF throws
       THEN /\ Catch(SendLog(toRenderer, ERROR, "Failed to load login page. Check VPN connection.",
                             Str_empty, << >>, "NET"))
            /\ hist' = [hist EXCEPT !.login = "failed"]
       ELSE /\ toRenderer' = SendLog(toRenderer, INFO, "Entering credentials for ",
                                     mjob.username, << >>, "AUTH")
            /\ mpc' = "fields"
            /\ UNCHANGED <<mjob, mi, processedCount, hist>>
  /\ UNCHANGED <<appMode, fetch, status, stats, logs, stopRef, job, pc, i, processedTotal,
                 isStopped, toMain>>

\* The try block that fills and submits the login form has settled.
MainFields ==
  /\ mpc = "fields"
  /\ \E throws \in BOOLEAN :
       IF throws
       THEN /\ toRenderer' = SendLog(toRenderer, WARNING,
                                     "Standard login fields not found. Please log in manually",
                                     Str_empty, << >>, "AUTH")
            /\ mpc' = "manual_wait"
       ELSE /\ mpc' = "wait3000"
            /\ UNCHANGED toRenderer
  /\ UNCHANGED <<appMode, fetch, status, stats, logs, stopRef, job, pc, i, processedTotal, hist,
                 mjob, mi, processedCount, isStopped, toMain>>

\* page.waitForTimeout(15000) of the manual login has settled.
MainManualWait ==
  /\ mpc = "manual_wait"
  /\ \E throws \in BOOLEAN :
       IF throws THEN Catch(toRenderer)
       ELSE /\ mpc' = "wait3000"
            /\ UNCHANGED <<toRenderer, mjob, mi, processedCount>>
  /\ UNCHANGED <<appMode, fetch, status, stats, logs, stopRef, job, pc, i, processedTotal, hist,
                 isStopped, toMain>>

\* page.waitForTimeout(3000) has settled: login is over, the loop begins.
MainLoginDone ==
  /\ mpc = "wait3000"
  /\ \E throws \in BOOLEAN :
       IF throws
       THEN /\ Catch(toRenderer)
            /\ UNCHANGED hist
       ELSE MainLoopTop(SendLog(SendLog(toRenderer, SUCCESS, "Login phase complete.",
                                        Str_empty, << >>, "AUTH"),
                                INFO, "Navigating to Dashboard...", Str_empty, << >>, "NAV"),
                        0, 0, [hist EXCEPT !.login = "ok", !.nav = @ + 1])
  /\ UNCHANGED <<appMode, fetch, status, stats, logs, stopRef, job, pc, i, processedTotal,
                 isStopped, toMain>>

\* page.waitForTimeout(1000) of a batch has settled.
MainBatchDone ==
  /\ mpc = "batch_wait"
  /\ \E throws \in BOOLEAN :
       IF throws
       THEN /\ Catch(toRenderer)
            /\ UNCHANGED hist
       ELSE LET batchData == BatchData(mjob.parsedData, mjob.batchSize, mi)
                newCount == processedCount + Len(batchData)
            IN MainLoopTop(
                 SendLog(SendStats(toRenderer, BatchStatsMessage(newCount, mi)),
                         SUCCESS, "Batch uploaded successfully via Chrome.", Str_empty,
                         <<mi + 1>>, BatchStep(mi + 1)),
                 mi + 1, newCount, EndUpload(hist, TRUE))
  /\ UNCHANGED <<appMode, fetch, status, stats, logs, stopRef, job, pc, i, processedTotal,
                 isStopped, toMain>>

\* ------------------------------------------------------------------ sheet fetch
\* The contents the sheet URL field can hold: empty, a text without "/d/<id>",
\* and a link parseGoogleSheetUrl accepts.
SheetUrls == {"", "not-a-sheet", "https://docs.google.com/spreadsheets/d/1oH41/edit?gid=0#gid=0"}

\* parseGoogleSheetUrl returns null unless the text holds "/d/<id>".
SheetUrlParses(sheetUrl) == sheetUrl \notin {"", "not-a-sheet"}

\* setLogs(prev => [...prev, entry]) with its entry put in front instead.
addLog_prepends(prev, entry) == <<entry>> \o prev

\* addLog: setLogs(prev => [...prev, entry]).
addLog(prev, entry) == Append(prev, entry)

FetchLog(level, text) == LogEntry(level, Msg(text, Str_empty, << >>), "FETCH", FALSE)

\* The catch block of handleFetchSheet followed by its finally block: a
\* warning, a timer of one second, and isFetching back to false.
FetchFallback ==
  /\ logs' = addLog(logs, FetchLog(WARNING,
               "Could not direct fetch (CORS restriction). Loading simulation data for preview..."))
  /\ fetch' = [fetch EXCEPT !.isFetching = FALSE, !.pc = "idle", !.timers = @ + 1]

\* A click on Fetch Data; the button is disabled while isFetching or RUNNING.
FetchSheet ==
  /\ ~fetch.isFetching
  /\ fetch.pc = "idle"
  /\ status # RUNNING
  /\ pc # "hung"
  /\ fetch.clicks < MaxFetches
  /\ \E sheetUrl \in SheetUrls :
       IF sheetUrl = ""
       THEN UNCHANGED <<logs, fetch>>
       ELSE IF ~SheetUrlParses(sheetUrl)
       THEN /\ logs' = addLog(addLog(logs, FetchLog(INFO, "Resolving Google Sheet: ")),
                              FetchLog(ERROR, "Invalid Google Sheet URL format."))
            /\ fetch' = [fetch EXCEPT !.clicks = @ + 1]
       ELSE /\ logs' = addLog(addLog(logs, FetchLog(INFO, "Resolving Google Sheet: ")),
                              FetchLog(SYSTEM, "Attempting to download CSV from: "))
            /\ fetch' = [fetch EXCEPT !.isFetching = TRUE, !.pc = "fetch", !.clicks = @ + 1]
  /\ UNCHANGED <<appMode, status, stats, stopRef, job, pc, i, processedTotal, hist,
                 mjob, mpc, mi, processedCount, isStopped, toMain, toRenderer>>

\* await fetch(exportUrl) is over: an ok response, another status, or a
\* rejection (CORS, no network).
FetchResponded ==
  /\ fetch.pc = "fetch"
  /\ pc # "hung"
  /\ \E ok \in BOOLEAN :
       IF ok
       THEN /\ fetch' = [fetch EXCEPT !.pc = "text"]
            /\ UNCHANGED logs
       ELSE FetchFallback
  /\ UNCHANGED <<appMode, status, stats, stopRef, job, pc, i, processedTotal, hist,
                 mjob, mpc, mi, processedCount, isStopped, toMain, toRenderer>>

\* await response.text() is over: the body arrived, or reading it failed.
FetchText ==
  /\ fetch.pc = "text"
  /\ pc # "hung"
  /\ \E ok \in BOOLEAN :
       IF ok
       THEN /\ logs' = addLog(logs, FetchLog(SUCCESS, "Sheet data fetched successfully."))
            /\ fetch' = [fetch EXCEPT !.isFetching = FALSE, !.pc = "idle"]
       ELSE FetchFallback
  /\ UNCHANGED <<appMode, status, stats, stopRef, job, pc, i, processedTotal, hist,
                 mjob, mpc, mi, processedCount, isStopped, toMain, toRenderer>>

\* The setTimeout callback of the catch block.
FetchDemoTimer ==
  /\ fetch.timers > 0
  /\ pc # "hung"
  /\ logs' = addLog(logs, FetchLog(INFO, "Loaded cached/demo data for testing purposes."))
  /\ fetch' = [fetch EXCEPT !.timers = @ - 1]
  /\ UNCHANGED <<appMode, status, stats, stopRef, job, pc, i, processedTotal, hist,
                 mjob, mpc, mi, processedCount, isStopped, toMain, toRenderer>>

\* ------------------------------------------------------------------ specification
Next ==
  \/ Start
  \/ Stop
  \/ Reset
  \/ LoginAfterConnect
  \/ LoginVpnFailed
  \/ LoginAfterCheck
  \/ NavAfterDashboard
  \/ NavAfterTab
  \/ NavAfterCatalog
  \/ UploadConvert
  \/ UploadLocate
  \/ UploadSelect
  \/ UploadClick
  \/ UploadAfterNetwork
  \/ UploadRetryFailed
  \/ WaitOver
  \/ OnLog
  \/ OnStatusChange
  \/ OnStatsUpdate
  \/ MainStartJob
  \/ MainStopJob
  \/ MainLaunched
  \/ MainGoto
  \/ MainFields
  \/ MainManualWait
  \/ MainLoginDone
  \/ MainBatchDone

Spec == Init /\ [][Next]_vars

\* The form contents used when the Fetch Data button is in play: one missing
\* password and one accepted login, no record or two records, a batch size of
\* 0 or 1, and every scenario.
FetchCredentials == { <<Str_u, Str_empty>>, <<Str_u, Str_good>> }
FetchRawDatas == { <<HeaderLine>> \o Repeat(GoodRow, n) : n \in {0, 2} }
FetchBatchSizes == {0, 1}

FetchStart ==
  \E cred \in FetchCredentials, rawData \in FetchRawDatas, batchSize \in FetchBatchSizes,
     scenario \in ScenariosOf(appMode) :
    StartWith(cred[1], cred[2], scenario, rawData, batchSize)

\* The page with its Fetch Data button in use as well.
FetchNext ==
  \/ FetchStart
  \/ FetchSheet
  \/ FetchResponded
  \/ FetchText
  \/ FetchDemoTimer
  \/ Stop
  \/ Reset
  \/ LoginAfterConnect
  \/ LoginVpnFailed
  \/ LoginAfterCheck
  \/ NavAfterDashboard
  \/ NavAfterTab
  \/ NavAfterCatalog
  \/ UploadConvert
  \/ UploadLocate
  \/ UploadSelect
  \/ UploadClick
  \/ UploadAfterNetwork
  \/ UploadRetryFailed
  \/ WaitOver
  \/ OnLog
  \/ OnStatusChange
  \/ OnStatsUpdate
  \/ MainStartJob
  \/ MainStopJob
  \/ MainLaunched
  \/ MainGoto
  \/ MainFields
  \/ MainManualWait
  \/ MainLoginDone
  \/ MainBatchDone

FetchSpec == Init /\ [][FetchNext]_vars

\* ------------------------------------------------------------------ properties
Simulated == appMode \in {"legacy", "sim"}

\* The queue main -> renderer ends with the given status notification.
StatusInFlight(newStatus) ==
  /\ toRenderer # << >>
  /\ toRenderer[Len(toRenderer)].channel = "job-status"
  /\ toRenderer[Len(toRenderer)].status = newStatus

RECURSIVE SumRecordCounts(_, _)
SumRecordCounts(uploads, k) ==
  IF k = 0 THEN 0 ELSE uploads[k].recordCount + SumRecordCounts(uploads, k - 1)

\* Size of the j-th batch (1-based) of total records split by a positive size.
ExpectedBatchSize(total, size, j) == Min(size, total - (j - 1) * size)

\* C1: in every reachable state the Stats snapshot satisfies
\* processedRecords = successCount + errorCount, processedRecords <= totalRecords
\* and batchesCompleted <= batchesTotal, in the simulated and the Electron build.
C1_StatsInvariant ==
  /\ stats.processedRecords = stats.successCount + stats.errorCount
  /\ stats.processedRecords <= stats.totalRecords
  /\ stats.batchesCompleted <= stats.batchesTotal

\* C2: whenever the status is COMPLETED, successCount + errorCount =
\* processedRecords = totalRecords and batchesCompleted = batchesTotal.
C2_CompletedTotals ==
  status = COMPLETED =>
    /\ stats.successCount + stats.errorCount = stats.processedRecords
    /\ stats.processedRecords = stats.totalRecords
    /\ stats.batchesCompleted = stats.batchesTotal

\* C3: once login has reported failure the run goes from RUNNING to FAILED and
\* nowhere else, navigation and the upload capability are never invoked,
\* batchesCompleted stays 0 and the Stats keep the values of initialisation.
C3_LoginFailureStops ==
  hist.login = "failed" =>
    /\ hist.nav = 0
    /\ hist.uploads = << >>
    /\ status \in {RUNNING, FAILED, IDLE}
    /\ Simulated => status # RUNNING /\ pc \in {"done", "hung"}
    /\ status = RUNNING => StatusInFlight(FAILED) /\ mpc = "idle"
    /\ status # IDLE => stats = hist.initStats /\ stats.batchesCompleted = 0

C3_Witness ==
  /\ appMode = "sim"
  /\ hist.login = "failed"
  /\ status = FAILED
  /\ stats.totalRecords = MaxRows

\* C4: a Start with an empty username, an empty password, or raw data that is
\* blank or parses to zero records leaves status, stats and the event log as
\* they were (so the status does not become RUNNING).
C4_StartFailsFast ==
  [][ \A cred \in Credentials, rawData \in RawDatas, batchSize \in BatchSizes,
         scenario \in ScenariosOf(appMode) :
        ( /\ PreconditionNotMet(cred[1], cred[2], rawData)
          /\ StartWith(cred[1], cred[2], scenario, rawData, batchSize) )
        => UNCHANGED <<status, stats, logs>> ]_vars

\* Steps of the events a Start itself appends.
StartSteps == {"INIT", "DATA", "LOGIN", "IPC"}

\* C5: a Start whose preconditions hold leaves a log that holds nothing but
\* its own first events, sets Stats to totalRecords = number of parsed records,
\* batchesTotal = number of batches and every counter 0, and sets the status to
\* RUNNING, with navigation and upload not yet invoked.
C5_StartInitialises ==
  [][ \A cred \in Credentials, rawData \in RawDatas, batchSize \in BatchSizes,
         scenario \in ScenariosOf(appMode) :
        ( /\ ~PreconditionNotMet(cred[1], cred[2], rawData)
          /\ StartWith(cred[1], cred[2], scenario, rawData, batchSize) )
        => /\ status' = RUNNING
           /\ stats'.totalRecords = Len(parseCSV(rawData))
           /\ batchSize > 0 =>
                stats'.batchesTotal = (Len(parseCSV(rawData)) + batchSize - 1) \div batchSize
           /\ stats'.batchesTotal >= 1
           /\ stats'.processedRecords = 0
           /\ stats'.successCount = 0
           /\ stats'.errorCount = 0
           /\ stats'.batchesCompleted = 0
           /\ Len(logs') <= 5
           /\ \A k \in 1..Len(logs') : logs'[k].step \in StartSteps
           /\ hist'.nav = 0
           /\ hist'.uploads = << >> ]_vars

\* A step in which an upload invocation returns.
UploadReturns == UploadsDone(hist') = UploadsDone(hist) + 1

\* The Stats after one batch of the given size and outcome was counted.
Counted(prev, size, batchSuccess) ==
  [prev EXCEPT !.processedRecords = @ + size,
               !.batchesCompleted = @ + 1,
               !.successCount = IF batchSuccess THEN @ + size ELSE @,
               !.errorCount = IF batchSuccess THEN @ ELSE @ + size]

\* C6: in the simulated builds the step in which an upload returns changes the
\* Stats by exactly one update: processedRecords grows by the batch's record
\* count, batchesCompleted by 1, successCount (upload succeeded) or errorCount
\* (upload failed) by the record count, totalRecords and batchesTotal stay; and
\* within a run the Stats change in no other step.
C6_OneUpdatePerBatch ==
  [][ Simulated =>
        /\ UploadReturns =>
             LET u == hist'.uploads[UploadsDone(hist')]
             IN stats' = Counted(stats, u.recordCount, u.result = "ok")
        /\ (stats' # stats /\ status = RUNNING /\ status' # IDLE) => UploadReturns ]_vars

C6_Witness ==
  /\ appMode = "sim"
  /\ status = RUNNING
  /\ stats.batchesCompleted = 2
  /\ stats.successCount = 1
  /\ stats.errorCount = 1

\* C7: in the simulated builds a run whose login succeeded and in which Stop
\* was never clicked is either still in progress or COMPLETED with every batch
\* attempted in order, whatever the per-batch outcomes (when every batch
\* failed, errorCount = totalRecords and successCount = 0); and the status is
\* never FAILED in a run whose login succeeded.
C7_FailedBatchNeverStops ==
  Simulated =>
    /\ status = FAILED => hist.login # "ok"
    /\ (hist.login = "ok" /\ hist.stopClicks = 0) =>
         /\ status \in {RUNNING, COMPLETED, IDLE}
         /\ status = RUNNING => pc \notin {"idle", "done", "hung"}
         /\ pc \in {"done", "hung"} =>
              /\ UploadsDone(hist) = Len(job.batches)
              /\ \A j \in 1..Len(job.batches) : hist.uploads[j].batchId = j
         /\ status = COMPLETED =>
              /\ stats.batchesCompleted = Len(job.batches)
              /\ (\A j \in 1..Len(job.batches) : hist.uploads[j].result = "failed") =>
                   stats.errorCount = stats.totalRecords /\ stats.successCount = 0

C7_Witness ==
  /\ appMode = "sim"
  /\ status = COMPLETED
  /\ hist.login = "ok"
  /\ hist.stopClicks = 0
  /\ UploadsDone(hist) = MaxRows
  /\ hist.uploads[1].result = "failed"
  /\ hist.uploads[2].result = "ok"
  /\ stats.errorCount > 0

\* The last event of the log is the Warning of a stop.
LastLogIsStopWarning ==
  /\ logs # << >>
  /\ logs[Len(logs)].level = WARNING
  /\ logs[Len(logs)].step = "STOP"

\* C8: once the batch loop has observed the stop flag before starting a batch,
\* a Warning event has been appended and the status set to PAUSED (in the
\* Electron build: the Warning and then PAUSED have been sent, and are shown
\* once received), the run is over, no upload is in progress or invoked
\* later, and the Stats count the batches uploaded before and no other.
C8_StopObserved ==
  hist.observedStop =>
    /\ UploadsStarted(hist) = UploadsDone(hist)
    /\ Simulated =>
         /\ status = PAUSED
         /\ pc \in {"done", "hung"}
         /\ LastLogIsStopWarning
         /\ stats.batchesCompleted = UploadsDone(hist)
         /\ stats.batchesCompleted < stats.batchesTotal
         /\ stats.processedRecords = SumRecordCounts(hist.uploads, UploadsDone(hist))
    /\ appMode = "electron" =>
         /\ mpc = "idle"
         /\ status \in {RUNNING, PAUSED}
         /\ stats.batchesCompleted <= UploadsDone(hist)
         /\ status = PAUSED =>
              /\ LastLogIsStopWarning
              /\ toRenderer = << >>
              /\ stats.batchesCompleted = UploadsDone(hist)
              /\ stats.processedRecords = SumRecordCounts(hist.uploads, UploadsDone(hist))
         /\ status = RUNNING =>
              /\ StatusInFlight(PAUSED)
              /\ \/ Len(toRenderer) = 1 /\ LastLogIsStopWarning
                 \/ /\ Len(toRenderer) >= 2
                    /\ toRenderer[Len(toRenderer) - 1].channel = "job-log"
                    /\ toRenderer[Len(toRenderer) - 1].log.level = WARNING

C8_Witness ==
  /\ appMode = "sim"
  /\ hist.observedStop
  /\ status = PAUSED
  /\ stats.batchesCompleted = 1
  /\ stats.batchesTotal = MaxRows

\* The awaits of simulateUploadBatch.
UploadPcs == {"up_d400", "up_d600", "up_d300", "up_d500", "up_net", "up_retry_d1000"}

\* A run in which Stop was clicked has returned.
CancelledRunOver ==
  /\ hist.stopClicks > 0
  /\ IF Simulated THEN pc \in {"done", "hung"} ELSE status = PAUSED

\* C9: when a run in which Stop was clicked is over, batchesCompleted is the
\* number k of uploads that returned, none is left in progress, every one of
\* them was a whole batch, and processedRecords is the sum of the sizes of the
\* first k batches; in the simulated builds a Stop clicked while batch k was
\* being uploaded ends with exactly k batches counted.
C9_CancelledCounts ==
  (CancelledRunOver /\ status # IDLE) =>
    LET k == UploadsDone(hist) IN
    /\ UploadsStarted(hist) = k
    /\ stats.batchesCompleted = k
    /\ stats.processedRecords = SumRecordCounts(hist.uploads, k)
    /\ \A j \in 1..k :
         /\ hist.uploads[j].batchId = j
         /\ hist.uploads[j].recordCount = ExpectedBatchSize(hist.total, hist.batchSize, j)
    /\ (Simulated /\ hist.stopAt.pc \in UploadPcs) => k = hist.stopAt.done + 1

C9_Witness ==
  /\ appMode = "sim"
  /\ status = PAUSED
  /\ hist.stopAt = [pc |-> "up_net", done |-> 0]
  /\ hist.batchSize = 2
  /\ stats.batchesCompleted = 1
  /\ stats.processedRecords = 2
  /\ stats.totalRecords = MaxRows

\* The awaits of runAutomation between the return of one upload and the
\* start of the next: the steps of navigation (before batch 1) and the
\* inter-batch delay.
BetweenBatches == {"nav_d600", "nav_d500", "nav_d800", "wait_2s"}

\* C10: in the simulated builds, when Stop is first clicked after batch i
\* returned and before batch i+1 started, the inter-batch delay included, no
\* further upload is invoked, and the run ends PAUSED with batchesCompleted = i
\* and processedRecords = the sum of the sizes of the first i batches.
C10_StopBetweenBatches ==
  (Simulated /\ hist.stopAt.pc \in BetweenBatches) =>
    LET n == hist.stopAt.done IN
    /\ UploadsStarted(hist) = n
    /\ stats.batchesCompleted = n
    /\ stats.processedRecords = SumRecordCounts(hist.uploads, n)
    /\ status \in {RUNNING, PAUSED}
    /\ status = RUNNING => pc \in BetweenBatches
    /\ status = PAUSED => pc \in {"done", "hung"} /\ hist.observedStop

C10_Witness ==
  /\ appMode = "sim"
  /\ hist.stopAt = [pc |-> "wait_2s", done |-> 1]
  /\ status = PAUSED
  /\ stats.batchesCompleted = 1
  /\ stats.batchesTotal = MaxRows

\* C11: a run in which Stop was clicked while it was RUNNING does not end
\* COMPLETED: whenever the status is COMPLETED, Stop was not clicked in that
\* run.
C11_CompletedOnlyWithoutStop ==
  status = COMPLETED => hist.stopClicks = 0

\* The control flow of the current run is still in progress: the simulated
\* runAutomation is suspended at an await, or (Electron build) the start-job
\* request, the handler or one of its notifications is still under way.
RunInProgress ==
  IF Simulated
  THEN pc \notin {"idle", "done", "hung"}
  ELSE \/ mpc # "idle"
       \/ toRenderer # << >>
       \/ \E k \in 1..Len(toMain) : toMain[k].channel = "start-job"

\* C12: with a positive batch size, a run that has entered RUNNING reaches a
\* terminal status whenever Stop is clicked: the status is never left RUNNING
\* by a run whose control flow is over (from such a state no step of the run
\* remains that could set COMPLETED, FAILED or PAUSED).
C12_RunningRunGoesOn ==
  (status = RUNNING /\ hist.batchSize > 0) => RunInProgress

\* ------------------------------------------------------------------ the batcher alone
\* chunkArray called on its own: every sequence of at most MaxRows records
\* drawn from MaxRows distinct ones, every size from -1 to MaxBatchSize + 1.
RecordSeqs == UNION { [1..n -> 1..MaxRows] : n \in 0..MaxRows }

ChunkSizes == (-1)..(MaxBatchSize + 1)

ChunkInit ==
  /\ appMode = "sim"
  /\ status = IDLE
  /\ stats = ZeroStats
  /\ logs = << >>
  /\ stopRef = FALSE
  /\ \E array \in RecordSeqs, size \in ChunkSizes :
       job = [NoJob EXCEPT !.parsedData = array, !.batchSize = size]
  /\ pc = "idle"
  /\ i = 0
  /\ processedTotal = 0
  /\ mjob = NoJob
  /\ mpc = "idle"
  /\ mi = 0
  /\ processedCount = 0
  /\ isStopped = FALSE
  /\ toMain = << >>
  /\ toRenderer = << >>
  /\ hist = NoHist
  /\ fetch = NoFetch

\* One call of chunkArray: it returns its result, or its loop never ends.
ChunkCall ==
  /\ pc = "idle"
  /\ IF ChunkTerminates(job.parsedData, job.batchSize)
     THEN /\ job' = [job EXCEPT !.batches = chunkArray(job.parsedData, job.batchSize)]
          /\ pc' = "returned"
     ELSE /\ pc' = "hung"
          /\ UNCHANGED job
  /\ UNCHANGED <<appMode, fetch, status, stats, logs, stopRef, i, processedTotal, hist,
                 mjob, mpc, mi, processedCount, isStopped, toMain, toRenderer>>

ChunkSpec == ChunkInit /\ [][ChunkCall]_vars

RECURSIVE Concat(_)
Concat(seqs) == IF seqs = << >> THEN << >> ELSE Head(seqs) \o Concat(Tail(seqs))

\* C13: for a positive size and a sequence of N records, chunkArray returns
\* ceil(N / size) batches, each of at least 1 and at most size records, whose
\* concatenation in order is the sequence itself (so their sizes sum to N and
\* every record is in exactly one batch); the empty sequence gives no batch.
C13_ChunkPartitions ==
  (pc # "idle" /\ job.batchSize > 0) =>
    LET array == job.parsedData
        size == job.batchSize
        batches == job.batches
    IN /\ pc = "returned"
       /\ Len(batches) * size >= Len(array)
       /\ (Len(batches) - 1) * size < Len(array) \/ batches = << >>
       /\ \A k \in 1..Len(batches) : Len(batches[k]) >= 1 /\ Len(batches[k]) <= size
       /\ Concat(batches) = array
       /\ Len(Concat(batches)) = Len(array)
       /\ array = << >> => batches = << >>

C13_Witness ==
  /\ pc = "returned"
  /\ job.parsedData = <<2, 1, 3>>
  /\ job.batchSize = 2
  /\ job.batches = << <<2, 1>>, <<3>> >>

\* C14: a call of chunkArray with a size <= 0 ends in an error outcome: it
\* neither returns batches nor runs without end.
C14_NonPositiveSizeFails ==
  (pc # "idle" /\ job.batchSize <= 0) => pc \notin {"returned", "hung"}

\* C15: after a reset (the only way back to IDLE) every Stats counter is
\* zero and the event log is empty, whatever the run before it was, and a
\* second handleReset leaves that state as it is.
C15_ResetClears ==
  status = IDLE =>
    /\ stats = ZeroStats
    /\ logs = << >>
    /\ handleReset(Observable) = Observable

C15_Witness ==
  /\ status = IDLE
  /\ hist.login = "ok"
  /\ hist.total = MaxRows
  /\ UploadsDone(hist) = MaxRows
  /\ handleReset(Observable) = Observable

\* C16: once the status is COMPLETED, the only step that changes the status
\* is a reset, which sets it to IDLE.
C16_CompletedUntilReset ==
  [][ (status = COMPLETED /\ status' # COMPLETED) => status' = IDLE ]_vars

\* C17: a Start with valid inputs issued from PAUSED, FAILED or COMPLETED
\* begins a fresh run: the status becomes RUNNING, the log holds nothing but
\* the first events of the new run, the Stats are the initial values of the
\* new record set with every counter 0, and no upload of the new run has been
\* counted or invoked yet (the loop starts again from batch 1).
C17_StartReplacesPriorRun ==
  [][ \A cred \in Credentials, rawData \in RawDatas, batchSize \in BatchSizes,
         scenario \in ScenariosOf(appMode) :
        ( /\ status \in {PAUSED, FAILED, COMPLETED}
          /\ ~PreconditionNotMet(cred[1], cred[2], rawData)
          /\ StartWith(cred[1], cred[2], scenario, rawData, batchSize) )
        => /\ status' = RUNNING
           /\ Len(logs') <= 5
           /\ \A k \in 1..Len(logs') : logs'[k].step \in StartSteps
           /\ stats'.totalRecords = Len(parseCSV(rawData))
           /\ stats'.processedRecords = 0
           /\ stats'.successCount = 0
           /\ stats'.errorCount = 0
           /\ stats'.batchesCompleted = 0
           /\ Simulated => (i' = 0 /\ processedTotal' = 0)
           /\ hist'.uploads = << >> ]_vars

\* The awaits of simulateLogin and of simulateNavigation, and the awaits of
\* the start-job handler before its loop.
LoginPcs == {"login_d800", "login_vpn_d300", "login_d1200"}
NavPcs == {"nav_d600", "nav_d500", "nav_d800"}
MainLoginPcs == {"launch", "goto", "fields", "manual_wait", "wait3000"}

\* The uploads of the run that have been invoked and have not returned.
UploadsPending == { j \in 1..Len(hist.uploads) : hist.uploads[j].result = "pending" }

\* C18: within a run the phases follow one another: while login is in
\* progress neither navigation nor an upload has been invoked; navigation is
\* invoked once, after login returned success, and while it is in progress no
\* upload has been invoked; an upload is invoked only after navigation, and
\* only the latest upload can be in progress, so that batch i has returned
\* when batch i+1 starts; login, navigation and an upload are never in
\* progress together.
C18_PhasesSequential ==
  /\ hist.nav <= 1
  /\ hist.nav = 1 => hist.login = "ok"
  /\ hist.uploads # << >> => hist.nav = 1
  /\ UploadsPending \subseteq {Len(hist.uploads)}
  /\ \A j \in 1..Len(hist.uploads) : hist.uploads[j].batchId = j
  /\ Simulated =>
       /\ pc \in LoginPcs => hist.login = "pending" /\ hist.nav = 0 /\ hist.uploads = << >>
       /\ pc \in NavPcs => hist.uploads = << >>
       /\ pc \in UploadPcs <=> UploadsPending # {}
  /\ appMode = "electron" =>
       /\ mpc \in MainLoginPcs => hist.nav = 0 /\ hist.uploads = << >>
       /\ mpc = "batch_wait" => UploadsPending = {Len(hist.uploads)}

C18_Witness ==
  /\ appMode = "sim"
  /\ pc = "up_net"
  /\ Len(hist.uploads) = 2
  /\ hist.uploads[1].result = "failed"
  /\ UploadsPending = {2}

\* The Stats observers see count batch j.
StatsVisible(j) == stats.batchesCompleted >= j

\* The log observers see holds the closing event of batch j (the Success or
\* Error event logged when its upload returned).
ClosingLogVisible(j) ==
  \E k \in 1..Len(logs) : logs[k].step = BatchStep(j) /\ logs[k].level \in {SUCCESS, ERROR}

\* Positions in the queue main -> renderer of the Stats notification and of
\* the closing log notification of batch j, and of any log notification of it.
StatsSentAt(j) ==
  { k \in 1..Len(toRenderer) : /\ toRenderer[k].channel = "job-stats"
                                /\ toRenderer[k].stats.batchesCompleted = j }
ClosingLogSentAt(j) ==
  { k \in 1..Len(toRenderer) : /\ toRenderer[k].channel = "job-log"
                                /\ toRenderer[k].log.step = BatchStep(j)
                                /\ toRenderer[k].log.level = SUCCESS }
LogsSentAt(j) ==
  { k \in 1..Len(toRenderer) : /\ toRenderer[k].channel = "job-log"
                                /\ toRenderer[k].log.step = BatchStep(j) }

\* C19: in every state in which the upload of batch j+1 has begun, the Stats
\* that observers see count batch j and the log they see holds the closing
\* event of batch j, in the simulated and in the Electron build.
C19_VisibleBeforeNextUpload ==
  status # IDLE =>
    \A j \in 1..(UploadsStarted(hist) - 1) : StatsVisible(j) /\ ClosingLogVisible(j)

\* C19, as the code has it: in the simulated builds the Stats update and the
\* closing event of batch j are visible when the upload of batch j+1 begins;
\* in the Electron build they have been sent by then, and each is either
\* visible or still in the queue ahead of every notification of batch j+1,
\* so observers see them before anything of batch j+1.
C19_SentBeforeNextUpload ==
  status # IDLE =>
    \A j \in 1..(UploadsStarted(hist) - 1) :
      /\ Simulated => StatsVisible(j) /\ ClosingLogVisible(j)
      /\ StatsVisible(j) \/ StatsSentAt(j) # {}
      /\ ClosingLogVisible(j) \/ ClosingLogSentAt(j) # {}
      /\ \A a \in StatsSentAt(j) \cup ClosingLogSentAt(j), b \in LogsSentAt(j + 1) : a < b
      /\ (\E k \in 1..Len(logs) : logs[k].step = BatchStep(j + 1)) =>
           StatsVisible(j) /\ ClosingLogVisible(j)

C19_Witness ==
  /\ appMode = "electron"
  /\ hist.batchSize = 1
  /\ mpc = "batch_wait"
  /\ UploadsStarted(hist) = 2
  /\ ~StatsVisible(1)
  /\ ~ClosingLogVisible(1)
  /\ StatsSentAt(1) # {}
  /\ LogsSentAt(2) # {}

\* The log after the step is the log before it with events added at its end.
LogGrows == Len(logs') >= Len(logs) /\ SubSeq(logs', 1, Len(logs)) = logs

\* The step is a click on Start that passed its checks: the button was there
\* and the step left the history of a run that has at most called the login.
StartStep ==
  /\ status # RUNNING
  /\ status' \in {RUNNING, FAILED}
  /\ hist'.login \in {"none", "pending"} /\ hist'.nav = 0 /\ hist'.uploads = << >>
  /\ hist'.stopClicks = 0

\* The step is a Reset or a Start that emptied the log: after a Start the log
\* holds nothing but the first events of the new run.
LogCleared ==
  \/ Reset /\ logs' = << >>
  \/ StartStep /\ \A k \in 1..Len(logs') : logs'[k].step \in StartSteps

\* C20: from one observable state to the next the event log keeps every event
\* it had, unchanged and in the same order, and may gain events at its end; the
\* only other change is that a Start or a Reset empties it.  No single event is
\* deleted or modified.
C20_LogAppendOnly == [][ LogGrows \/ LogCleared ]_vars

\* A run started after a fetch fell back to the demo data: the Start emptied
\* the log of the fetch events, the run wrote its own, and the late timer of
\* the fetch added its event at the end.
C20_Witness ==
  /\ status = RUNNING
  /\ fetch.clicks = 1
  /\ fetch.timers = 0
  /\ Len(logs) > 2
  /\ logs[1].step \in StartSteps
  /\ logs[Len(logs)].step = "FETCH"
  /\ \A k \in 1..(Len(logs) - 1) : logs[k].step # "FETCH"

\* A step of the sheet-fetch handler or of its fallback timer.
FetchHandlerStep == FetchSheet \/ FetchResponded \/ FetchText \/ FetchDemoTimer

\* C21: while a run is active no step of the sheet-fetch handler or of its
\* delayed fallback timer changes the job status, the Stats or the event log.
C21_RunOwnsState ==
  [][ (status = RUNNING /\ FetchHandlerStep) => UNCHANGED <<status, stats, logs>> ]_vars

\* The Error-severity events of a log.
ErrorEvents(log) == SelectSeq(log, LAMBDA e : e.level = ERROR)

\* C22: once the login of a run has returned failure and every notification
\* of the run has been delivered, the log holds exactly one Error-severity
\* event, and that event is tagged AUTH.
C22_OneAuthErrorOnLoginFailure ==
  (hist.login = "failed" /\ status = FAILED /\ toRenderer = << >>)
    => /\ Len(ErrorEvents(logs)) = 1
       /\ ErrorEvents(logs)[1].step = "AUTH"

HasEvent(log, level) == \E k \in 1..Len(log) : log[k].level = level

\* The log holds an event of the given severity tagged with the given batch.
HasBatchEvent(log, level, batchId) ==
  \E k \in 1..Len(log) : log[k].level = level /\ log[k].step = BatchStep(batchId)

\* C23: a step that sets the status to FAILED leaves a log of the run that
\* holds an Error-severity event; a step in which errorCount grows leaves a log
\* that holds an Error-severity event tagged with the identifier of the batch
\* whose upload has just returned; a step that sets the status to PAUSED leaves
\* a log of the run that holds a Warning-severity event.
C23_FailuresMirroredInLog ==
  [][ /\ (status # FAILED /\ status' = FAILED) => HasEvent(logs', ERROR)
      /\ (status' # IDLE /\ stats'.errorCount > stats.errorCount) =>
            (/\ hist'.uploads # << >>
             /\ HasBatchEvent(logs', ERROR, hist'.uploads[Len(hist'.uploads)].batchId))
      /\ (status # PAUSED /\ status' = PAUSED) => HasEvent(logs', WARNING) ]_vars

\* ------------------------------------------------------------------ login as a function
\* The characters of the fixed part of each message the login writes, as the
\* source has them.
TextChars(text) ==
  CASE text = "Navigating to" ->
    <<"N", "a", "v", "i", "g", "a", "t", "i", "n", "g", " ", "t", "o", " ", "h", "t", "t",
      "p", "s", ":", "/", "/", "w", "i", "t", "h", "p", "a", "s", "s", "i", "o", "n", ".",
      "d", "e", "c", "a", "t", "h", "l", "o", "n", ".", "n", "e", "t", "/", "r", "a", "n",
      "k", "2", "/", "c", "o", "n", "t", "r", "o", "l", "/", "l", "o", "g", "i", "n">>
    [] text = "Navigating to " ->
    <<"N", "a", "v", "i", "g", "a", "t", "i", "n", "g", " ", "t", "o", " ", "h", "t", "t",
      "p", "s", ":", "/", "/", "w", "i", "t", "h", "p", "a", "s", "s", "i", "o", "n", ".",
      "d", "e", "c", "a", "t", "h", "l", "o", "n", ".", "n", "e", "t", "/", "r", "a", "n",
      "k", "2", "/", "c", "o", "n", "t", "r", "o", "l", "/", "l", "o", "g", "i", "n">>
    [] text = "Network Error: Host unreachable." ->
    <<"N", "e", "t", "w", "o", "r", "k", " ", "E", "r", "r", "o", "r", ":", " ", "H", "o",
      "s", "t", " ", "u", "n", "r", "e", "a", "c", "h", "a", "b", "l", "e", ".">>
    [] text = "CRITICAL: Corporate VPN connection not detected." ->
    <<"C", "R", "I", "T", "I", "C", "A", "L", ":", " ", "C", "o", "r", "p", "o", "r", "a",
      "t", "e", " ", "V", "P", "N", " ", "c", "o", "n", "n", "e", "c", "t", "i", "o", "n",
      " ", "n", "o", "t", " ", "d", "e", "t", "e", "c", "t", "e", "d", ".", " ", "P", "l",
      "e", "a", "s", "e", " ", "c", "o", "n", "n", "e", "c", "t", " ", "t", "o", " ", "G",
      "l", "o", "b", "a", "l", "P", "r", "o", "t", "e", "c", "t", " ", "a", "n", "d", " ",
      "r", "e", "t", "r", "y", ".">>
    [] text = "Checking credentials for user: " ->
    <<"C", "h", "e", "c", "k", "i", "n", "g", " ", "c", "r", "e", "d", "e", "n", "t", "i",
      "a", "l", "s", " ", "f", "o", "r", " ", "u", "s", "e", "r", ":", " ">>
    [] text = "Authentication failed: Invalid credentials" ->
    <<"A", "u", "t", "h", "e", "n", "t", "i", "c", "a", "t", "i", "o", "n", " ", "f", "a",
      "i", "l", "e", "d", ":", " ", "I", "n", "v", "a", "l", "i", "d", " ", "c", "r", "e",
      "d", "e", "n", "t", "i", "a", "l", "s">>
    [] text = "Authentication failed: Invalid credentials or Account Locked." ->
    <<"A", "u", "t", "h", "e", "n", "t", "i", "c", "a", "t", "i", "o", "n", " ", "f", "a",
      "i", "l", "e", "d", ":", " ", "I", "n", "v", "a", "l", "i", "d", " ", "c", "r", "e",
      "d", "e", "n", "t", "i", "a", "l", "s", " ", "o", "r", " ", "A", "c", "c", "o", "u",
      "n", "t", " ", "L", "o", "c", "k", "e", "d", ".">>
    [] text = "(Simulation Tip: Avoid using passwords containing wrong or error)" ->
    <<"(", "S", "i", "m", "u", "l", "a", "t", "i", "o", "n", " ", "T", "i", "p", ":", " ",
      "A", "v", "o", "i", "d", " ", "u", "s", "i", "n", "g", " ", "p", "a", "s", "s", "w",
      "o", "r", "d", "s", " ", "c", "o", "n", "t", "a", "i", "n", "i", "n", "g", " ", "\"",
      "w", "r", "o", "n", "g", "\"", " ", "o", "r", " ", "\"", "e", "r", "r", "o", "r",
      "\"", " ", "f", "o", "r", " ", "t", "h", "e", " ", "H", "a", "p", "p", "y", " ", "P",
      "a", "t", "h", ")">>
    [] text = "Login successful. Dashboard loaded." ->
    <<"L", "o", "g", "i", "n", " ", "s", "u", "c", "c", "e", "s", "s", "f", "u", "l", ".",
      " ", "D", "a", "s", "h", "b", "o", "a", "r", "d", " ", "l", "o", "a", "d", "e", "d",
      ".">>
    [] text = "Failed to load login page. Check VPN connection." ->
    <<"F", "a", "i", "l", "e", "d", " ", "t", "o", " ", "l", "o", "a", "d", " ", "l", "o",
      "g", "i", "n", " ", "p", "a", "g", "e", ".", " ", "C", "h", "e", "c", "k", " ", "V",
      "P", "N", " ", "c", "o", "n", "n", "e", "c", "t", "i", "o", "n", ".">>
    [] text = "Critical Failure: " ->
    <<"C", "r", "i", "t", "i", "c", "a", "l", " ", "F", "a", "i", "l", "u", "r", "e", ":",
      " ">>
    [] text = "Entering credentials for " ->
    <<"E", "n", "t", "e", "r", "i", "n", "g", " ", "c", "r", "e", "d", "e", "n", "t", "i",
      "a", "l", "s", " ", "f", "o", "r", " ">>
    [] text = "Standard login fields not found. Please log in manually" ->
    <<"S", "t", "a", "n", "d", "a", "r", "d", " ", "l", "o", "g", "i", "n", " ", "f", "i",
      "e", "l", "d", "s", " ", "n", "o", "t", " ", "f", "o", "u", "n", "d", ".", " ", "P",
      "l", "e", "a", "s", "e", " ", "l", "o", "g", " ", "i", "n", " ", "m", "a", "n", "u",
      "a", "l", "l", "y", " ", "i", "n", " ", "t", "h", "e", " ", "b", "r", "o", "w", "s",
      "e", "r", " ", "w", "i", "n", "d", "o", "w", ".", ".", ".">>
    [] text = "Login phase complete." ->
    <<"L", "o", "g", "i", "n", " ", "p", "h", "a", "s", "e", " ", "c", "o", "m", "p", "l",
      "e", "t", "e", ".">>
    [] OTHER -> << >>

\* The message of an event as it is written: the fixed text followed by the
\* interpolated name.
Rendered(event) == TextChars(event.message.text) \o event.message.user

\* simulateLogin as a function of its arguments: what it returns and the
\* events it appends.
simulateLogin(mode, username, password, scenario) ==
  IF mode = "sim" /\ scenario = "ERROR_VPN"
  THEN [ok |-> FALSE, events |-> <<LoginFirstLog, LoginNetLog, LoginVpnLog>>]
  ELSE IF CredentialsRejected(mode, username, password, scenario)
  THEN [ok |-> FALSE,
        events |-> <<LoginFirstLog, LoginCheckLog(username, password)>>
                   \o LoginFailureLogs(mode)]
  ELSE [ok |-> TRUE,
        events |-> <<LoginFirstLog, LoginCheckLog(username, password), LoginSuccessLog>>]

\* The login part of the start-job handler, given whether page.goto throws and
\* whether the form fields are missing: the events it sends.
MainLogin(username, password, gotoThrows, fieldsMissing) ==
  LET nav == SentLog(INFO, Msg("Navigating to ", Str_empty, << >>), "LOGIN")
      enter == SentLog(INFO, Msg("Entering credentials for ", username, << >>), "AUTH")
  IN
  IF gotoThrows
  THEN [ok |-> FALSE,
        events |-> << nav,
                      SentLog(ERROR, Msg("Failed to load login page. Check VPN connection.",
                                         Str_empty, << >>), "NET"),
                      SentLog(ERROR, Msg("Critical Failure: ", Str_empty, << >>), "ERR") >>]
  ELSE [ok |-> TRUE,
        events |-> << nav, enter >>
                   \o (IF fieldsMissing
                       THEN << SentLog(WARNING,
                                 Msg("Standard login fields not found. Please log in manually",
                                     Str_empty, << >>), "AUTH") >>
                       ELSE << >>)
                   \o << SentLog(SUCCESS, Msg("Login phase complete.", Str_empty, << >>),
                                 "AUTH") >>]

\* The ways a login with the given inputs can go.
LoginRuns(mode, username, password, scenario) ==
  IF mode = "electron"
  THEN { MainLogin(username, password, gotoThrows, fieldsMissing) :
           gotoThrows \in BOOLEAN, fieldsMissing \in BOOLEAN }
  ELSE { simulateLogin(mode, username, password, scenario) }

LoginUsernames == {Str_u, Str_error, Str_good}
LoginPasswords == {Str_abc, Str_Fail1, Str_good, Str_error}

LoginInit ==
  /\ appMode \in AppModes
  /\ status = IDLE
  /\ stats = ZeroStats
  /\ logs = << >>
  /\ stopRef = FALSE
  /\ \E username \in LoginUsernames, password \in LoginPasswords,
        scenario \in ScenariosOf(appMode) :
       job = [NoJob EXCEPT !.username = username, !.password = password,
                           !.scenario = scenario]
  /\ pc = "idle"
  /\ i = 0
  /\ processedTotal = 0
  /\ mjob = NoJob
  /\ mpc = "idle"
  /\ mi = 0
  /\ processedCount = 0
  /\ isStopped = FALSE
  /\ toMain = << >>
  /\ toRenderer = << >>
  /\ hist = NoHist
  /\ fetch = NoFetch

\* One login from its call to its return.
LoginCall ==
  /\ pc = "idle"
  /\ \E run \in LoginRuns(appMode, job.username, job.password, job.scenario) :
       /\ logs' = run.events
       /\ hist' = [hist EXCEPT !.login = IF run.ok THEN "ok" ELSE "failed"]
  /\ pc' = "returned"
  /\ UNCHANGED <<appMode, fetch, status, stats, stopRef, job, i, processedTotal,
                 mjob, mpc, mi, processedCount, isStopped, toMain, toRenderer>>

LoginSpec == LoginInit /\ [][LoginCall]_vars

\* The events written are those of a login with any other password that can
\* have the same outcome.
LogIndependentOfPassword ==
  \A other \in LoginPasswords :
    (\E run \in LoginRuns(appMode, job.username, other, job.scenario) :
        run.ok = (hist.login = "ok"))
    => [ok |-> hist.login = "ok", events |-> logs]
         \in LoginRuns(appMode, job.username, other, job.scenario)

UploadGoesWell ==
  UploadAfterNetwork /\ hist'.uploads[Len(hist'.uploads)].result = "ok"
UploadGoesWrong ==
  UploadAfterNetwork /\ hist'.uploads[Len(hist'.uploads)].result # "ok"

\* C25: in the simulated builds, in a run with no stop request, the outcome of
\* an upload is fixed by the inputs of the run: there is no state in which the
\* upload in progress can both succeed and fail, so two runs with the same
\* inputs have the same per-batch outcomes, final Stats and terminal status.
C25_SimulatedDeterministic ==
  (Simulated /\ pc = "up_net" /\ hist.stopClicks = 0)
    => ~(ENABLED UploadGoesWell /\ ENABLED UploadGoesWrong)

\* ------------------------------------------------------------------ C26
StatsCounters == {"processedRecords", "successCount", "errorCount", "batchesCompleted"}

CountersNotDecreased == \A k \in StatsCounters : stats'[k] >= stats[k]

CountersZero(s) == \A k \in StatsCounters : s[k] = 0

\* C26: from one observable state to the next no Stats counter
\* (processedRecords, successCount, errorCount, batchesCompleted) decreases
\* while a run is in progress; a counter goes down only in a step taken outside
\* a run, which sets every counter to zero and is the Start of the next run
\* (or the Reset of a finished one).
C26_CountersMonotone ==
  [][ \/ CountersNotDecreased
      \/ /\ status # RUNNING
         /\ CountersZero(stats')
         /\ (StartStep \/ Reset) ]_vars

\* A run has counted two batches that hold three records between them.
C26_Witness ==
  /\ status = RUNNING
  /\ stats.batchesCompleted = 2
  /\ stats.processedRecords > stats.batchesCompleted

\* ------------------------------------------------------------------ parseCSV on characters
\* The text handed to parseCSV, character by character.  No field over this
\* alphabet looks like a number, so every value stays a string.
CsvChars == {"a", ",", "\n", " "}

Texts == UNION { [1..n -> CsvChars] : n \in 0..MaxTextLen }

IsWhite(c) == c \in {" ", "\n"}

RECURSIVE TrimStart(_)
TrimStart(s) == IF s # << >> /\ IsWhite(Head(s)) THEN TrimStart(Tail(s)) ELSE s

RECURSIVE TrimEnd(_)
TrimEnd(s) ==
  IF s # << >> /\ IsWhite(s[Len(s)]) THEN TrimEnd(SubSeq(s, 1, Len(s) - 1)) ELSE s

\* String.prototype.trim.
TrimText(s) == TrimEnd(TrimStart(s))

\* String.prototype.split(sep) for a one-character separator: a string without
\* the separator, the empty string included, splits into itself.
RECURSIVE Split(_, _)
Split(s, sep) ==
  IF \A k \in 1..Len(s) : s[k] # sep
  THEN <<s>>
  ELSE LET p == CHOOSE k \in 1..Len(s) : s[k] = sep /\ \A j \in 1..(k - 1) : s[j] # sep
       IN  <<SubSeq(s, 1, p - 1)>> \o Split(SubSeq(s, p + 1, Len(s)), sep)

\* A test that lets every line through.
RowAccepted_always(currentLine, headers) == TRUE

\* if (currentLine.length !== headers.length) continue;
RowAccepted(currentLine, headers) == Len(currentLine) = Len(headers)

\* currentLine[index]?.trim(): a line shorter than the headers gives undefined.
FieldValue(currentLine, n) ==
  IF n <= Len(currentLine) THEN TrimText(currentLine[n]) ELSE "undefined"

\* The loop of parseCSV from line index k (zero-based) on: a record holds the
\* index of its line and its trimmed values, in the order of the headers.
RECURSIVE ParseLines(_, _, _)
ParseLines(lines, headers, k) ==
  IF k >= Len(lines) THEN << >>
  ELSE LET currentLine == Split(lines[k + 1], ",")
       IN  IF ~RowAccepted(currentLine, headers)
           THEN ParseLines(lines, headers, k + 1)
           ELSE <<[row |-> k,
                   fields |-> [n \in 1..Len(headers) |-> FieldValue(currentLine, n)]]>>
                \o ParseLines(lines, headers, k + 1)

parseCSVText(csvText) ==
  LET lines == Split(TrimText(csvText), "\n") IN
  IF Len(lines) < 2 THEN << >>
  ELSE LET headers == [n \in 1..Len(Split(lines[1], ",")) |->
                          TrimText(Split(lines[1], ",")[n])]
       IN  ParseLines(lines, headers, 1)

\* A job record that also holds the text of the call.
ParseJob(csvText, data) ==
  [f \in DOMAIN NoJob \cup {"csvText"} |->
     IF f = "csvText" THEN csvText
     ELSE IF f = "parsedData" THEN data
     ELSE NoJob[f]]

ParseInit ==
  /\ appMode = "sim"
  /\ status = IDLE
  /\ stats = ZeroStats
  /\ logs = << >>
  /\ stopRef = FALSE
  /\ \E csvText \in Texts : job = ParseJob(csvText, << >>)
  /\ pc = "idle"
  /\ i = 0
  /\ processedTotal = 0
  /\ mjob = NoJob
  /\ mpc = "idle"
  /\ mi = 0
  /\ processedCount = 0
  /\ isStopped = FALSE
  /\ toMain = << >>
  /\ toRenderer = << >>
  /\ hist = NoHist
  /\ fetch = NoFetch

\* One call of parseCSV.
ParseCall ==
  /\ pc = "idle"
  /\ job' = ParseJob(job.csvText, parseCSVText(job.csvText))
  /\ pc' = "returned"
  /\ UNCHANGED <<appMode, fetch, status, stats, logs, stopRef, i, processedTotal, hist,
                 mjob, mpc, mi, processedCount, isStopped, toMain, toRenderer>>

ParseSpec == ParseInit /\ [][ParseCall]_vars

\* ------------------------------------------------------------------ C29
\* The positions of the line breaks of a text, and its lines read off them.
Breaks(s) == { k \in 1..Len(s) : s[k] = "\n" }

LineCount(s) == Cardinality(Breaks(s)) + 1

LineStart(s, n) ==
  IF n = 1 THEN 1
  ELSE 1 + CHOOSE k \in Breaks(s) : Cardinality({ j \in Breaks(s) : j <= k }) = n - 1

LineEnd(s, n) ==
  IF n = LineCount(s) THEN Len(s)
  ELSE (CHOOSE k \in Breaks(s) : Cardinality({ j \in Breaks(s) : j <= k }) = n) - 1

FieldCount(s, n) ==
  1 + Cardinality({ k \in LineStart(s, n)..LineEnd(s, n) : s[k] = "," })

\* The data rows (numbered from 1, after the header line) whose field count is
\* the header's.
WellFormedRows(s) ==
  { r \in 1..(LineCount(s) - 1) : FieldCount(s, r + 1) = FieldCount(s, 1) }

\* C29: parseCSV returns one record per data row whose field count equals the
\* header's, in the order of the rows, each with that many fields; a row with
\* another field count is left out and nothing is raised (the call returns);
\* a text of fewer than two lines gives the empty sequence.  The header and
\* the rows are the lines of the text without the white space at its ends.
C29_ParseKeepsWellFormedRows ==
  pc = "returned" =>
    LET text == TrimText(job.csvText)
        data == job.parsedData
    IN  /\ Len(data) = Cardinality(WellFormedRows(text))
        /\ \A n \in 1..Len(data) :
             /\ data[n].row \in WellFormedRows(text)
             /\ Len(data[n].fields) = FieldCount(text, 1)
        /\ \A m, n \in 1..Len(data) : m < n => data[m].row < data[n].row
        /\ (LineCount(job.csvText) < 2 \/ LineCount(text) < 2) => data = << >>

\* A text of a header and two data rows, of which the first has one field too
\* many: the call returned the second row alone.
C29_Witness ==
  /\ pc = "returned"
  /\ LineCount(job.csvText) = 3
  /\ Len(job.parsedData) = 1
  /\ job.parsedData[1].row = 2

\* ------------------------------------------------------------------ C27
\* A phase operation of the run has failed: the login, or the upload of a batch.
PhaseFailed(h) ==
  h.login = "failed" \/ \E k \in 1..Len(h.uploads) : h.uploads[k].result = "failed"

\* The run has come to rest: its handler has returned and every notification
\* has been delivered.
RunAtRest ==
  /\ status # IDLE
  /\ pc \in {"idle", "done"}
  /\ mpc = "idle"
  /\ toMain = << >>
  /\ toRenderer = << >>

\* C27: a phase operation that fails is turned into an Error-severity event
\* and a transition to FAILED, and no batch is processed after it: a failed
\* upload is the last upload of its run, and a run in which a phase operation
\* failed rests in FAILED with an Error event in its log.
C27_PhaseFailureEndsRun ==
  /\ \A k \in 1..Len(hist.uploads) :
        hist.uploads[k].result = "failed" => k = Len(hist.uploads)
  /\ (PhaseFailed(hist) /\ RunAtRest) => (status = FAILED /\ HasEvent(logs, ERROR))

\* ------------------------------------------------------------------ event ids
\* Values Math.random() can return, each by the digits of its fraction in
\* base 36: zero, one half, and two values that agree in their first nine
\* digits.
RandomDigits ==
  { << >>,
    <<"i">>,
    <<"a", "b", "c", "d", "e", "f", "g", "h", "i", "j">>,
    <<"a", "b", "c", "d", "e", "f", "g", "h", "i", "k">> }

\* Number.prototype.toString(36) of a value in [0, 1).
ToString36(digits) == IF digits = << >> THEN <<"0">> ELSE <<"0", ".">> \o digits

\* String.prototype.substr(start, length), start counted from zero.
Substr(s, start, length) ==
  IF start >= Len(s) THEN << >> ELSE SubSeq(s, start + 1, Min(Len(s), start + length))

\* Math.random().toString(36).substr(2, 9)
NewId(digits) == Substr(ToString36(digits), 2, 9)

WithId(entry, id) ==
  [f \in DOMAIN entry \cup {"id"} |-> IF f = "id" THEN id ELSE entry[f]]

\* addLog, with the id of the entry: the renderer appends an event.
AddLogWithId ==
  /\ Len(logs) + Len(toRenderer) < MaxEvents
  /\ \E digits \in RandomDigits :
       logs' = Append(logs, WithId(LogEntry(INFO, Msg("event", Str_empty, << >>), "SYS", FALSE),
                                   NewId(digits)))
  /\ UNCHANGED <<appMode, fetch, status, stats, stopRef, job, pc, i, processedTotal, hist,
                 mjob, mpc, mi, processedCount, isStopped, toMain, toRenderer>>

\* sendLog, with the id of the entry: the main process sends an event.
SendLogWithId ==
  /\ appMode = "electron"
  /\ Len(logs) + Len(toRenderer) < MaxEvents
  /\ \E digits \in RandomDigits :
       toRenderer' =
         Append(toRenderer,
                [channel |-> "job-log",
                 log |-> WithId(SentLog(INFO, Msg("event", Str_empty, << >>), "SYS"),
                                NewId(digits))])
  /\ UNCHANGED <<appMode, fetch, status, stats, logs, stopRef, job, pc, i, processedTotal,
                 hist, mjob, mpc, mi, processedCount, isStopped, toMain>>

IdNext == AddLogWithId \/ SendLogWithId \/ OnLog

IdSpec == Init /\ [][IdNext]_vars

\* ------------------------------------------------------------------ C28
\* C28: the events of the log have pairwise distinct ids, whether the renderer
\* created them or the main process sent them.
C28_DistinctIds ==
  \A m, n \in 1..Len(logs) : m # n => logs[m].id # logs[n].id

\* ------------------------------------------------------------------ C30
\* The step invokes navigation.
NavigationInvoked == hist'.nav > hist.nav

\* The step is one of navigation itself: a delay of simulateNavigation is over.
NavigationStep == pc \in {"nav_d600", "nav_d500", "nav_d800"} /\ pc' # pc

\* C30: navigation is invoked only in a run whose login has succeeded and in
\* which no stop has been requested by then, with the status RUNNING before and
\* after the invocation; and no step of navigation changes the status, which
\* is RUNNING before it and RUNNING after it unless the loop, entered in the
\* step in which navigation returns, takes its stop branch.
C30_NavigationGuarded ==
  [][ /\ NavigationInvoked =>
           /\ hist'.login = "ok"
           /\ hist.stopClicks = 0
           /\ status = RUNNING /\ status' = RUNNING
      /\ NavigationStep =>
           /\ status = RUNNING
           /\ status' = RUNNING \/ (pc = "nav_d800" /\ hist'.observedStop) ]_vars

\* ------------------------------------------------------------------ C31
\* The step is a stop request: a click on Stop, or stop-job reaching the main
\* process.
StopRequestStep == hist'.stopClicks > hist.stopClicks \/ (~isStopped /\ isStopped')

\* Every upload the run has begun has returned and is counted in the Stats s.
UploadsCounted(h, s) ==
  /\ UploadsDone(h) = UploadsStarted(h)
  /\ s.batchesCompleted >= UploadsStarted(h)
  /\ s.processedRecords >= SumRecordCounts(h.uploads, UploadsStarted(h))

\* C31: a stop request leaves the upload in progress as it is (the program
\* stays at the same await and the upload stays begun), and when the stop
\* takes effect, the status becoming PAUSED, every upload begun before it,
\* the one in progress at the request included, has returned and is counted in
\* batchesCompleted and processedRecords.
C31_NoPreemption ==
  [][ /\ StopRequestStep => (pc' = pc /\ mpc' = mpc /\ hist'.uploads = hist.uploads)
      /\ (status # PAUSED /\ status' = PAUSED) => UploadsCounted(hist', stats') ]_vars

\* Stop was clicked while the first batch was being uploaded, and the run
\* paused with that batch counted.
C31_Witness ==
  /\ status = PAUSED
  /\ hist.stopAt.pc \in UploadPcs
  /\ hist.stopAt.done = 0
  /\ UploadsDone(hist) = 1
  /\ stats.batchesCompleted = 1
  /\ stats.processedRecords = hist.uploads[1].recordCount

\* ------------------------------------------------------------------ C32
\* C32: the uploads of a run carry the batch identifiers 1, 2, ..., k in that
\* order, without gap or repeat, and the record count of each is the size of
\* its batch, which is at least 1.
C32_UploadsInOrder ==
  \A j \in 1..Len(hist.uploads) :
    /\ hist.uploads[j].batchId = j
    /\ hist.uploads[j].recordCount >= 1
    /\ hist.uploads[j].recordCount = ExpectedBatchSize(hist.total, hist.batchSize, j)

\* ------------------------------------------------------------------ C33
\* C33: in the step in which the status becomes COMPLETED the log is not empty
\* and its last event is of Success severity, tagged DONE.
C33_CompletedAfterSuccessEvent ==
  [][ (status # COMPLETED /\ status' = COMPLETED) =>
        (/\ logs' # << >>
         /\ logs'[Len(logs')].level = SUCCESS
         /\ logs'[Len(logs')].step = "DONE") ]_vars

\* ------------------------------------------------------------------ C34
\* runAutomation, or the start-job handler, has begun and has not returned:
\* the run is under way, or runAutomation is inside a call that never returns.
ControlFlowInProgress == RunInProgress \/ pc = "hung"

\* C34: the status is RUNNING in every state in which the control flow of a
\* run is still in progress; as Start is offered only when the status is not
\* RUNNING, no second run begins before the first has set a terminal status.
C34_OneRunAtATime == ControlFlowInProgress => status = RUNNING

\* ------------------------------------------------------------------ C35
\* The run is over and nothing of it went wrong: login succeeded, every
\* notification is delivered and the status is not FAILED.
RunOverUnfailed ==
  /\ hist.login = "ok"
  /\ ~ControlFlowInProgress
  /\ status \notin {IDLE, FAILED}

\* C35: in a run in which Stop was not clicked the stop flag is clear as long
\* as the run can read it, whatever an earlier run left in it; the loop never
\* takes its stop branch, the status never becomes PAUSED, and the run, once
\* over, is COMPLETED with every batch uploaded.
C35_StopFlagResetAtStart ==
  (hist.stopClicks = 0 /\ hist.login # "none") =>
    /\ (Simulated /\ RunInProgress) => ~stopRef
    /\ mpc # "idle" => ~isStopped
    /\ ~hist.observedStop
    /\ status # PAUSED
    /\ (RunOverUnfailed /\ hist.batchSize > 0) =>
         /\ status = COMPLETED
         /\ UploadsDone(hist) = CeilDiv(hist.total, hist.batchSize)

\* A later run has begun, with no Stop clicked in it, while the main process
\* still holds the stop flag an earlier run left set.
C35_Witness ==
  /\ appMode = "electron"
  /\ status = RUNNING
  /\ hist.stopClicks = 0
  /\ hist.login = "pending"
  /\ isStopped
  /\ toMain # << >>
  /\ toMain[Len(toMain)].channel = "start-job"

\* ------------------------------------------------------------------ C36
\* The point of the run at which the stop flag was set, for a run of nBatches
\* batches: during login, during a batch that is not the last, during the last
\* batch, between two batches, or elsewhere.
StopPoint(h, nBatches) ==
  IF h.stopAt.pc \in LoginPcs \cup {"main_login"} THEN "login"
  ELSE IF h.stopAt.pc \in UploadPcs \cup {"batch_wait"}
       THEN (IF h.stopAt.done + 1 = nBatches THEN "last batch" ELSE "batch")
  ELSE IF h.stopAt.pc \in BetweenBatches THEN "between"
  ELSE "elsewhere"

\* How the simulated orchestrator ends a run stopped at the given point, when
\* done batches had returned by then: the status it is left with and the
\* number of batches completed.
SimulatedOutcome(point, done, nBatches) ==
  CASE point = "login" -> [status |-> RUNNING, batchesCompleted |-> 0]
    [] point = "batch" -> [status |-> PAUSED, batchesCompleted |-> done + 1]
    [] point = "last batch" -> [status |-> COMPLETED, batchesCompleted |-> nBatches]
    [] point = "between" -> [status |-> PAUSED, batchesCompleted |-> done]

\* A run in which the stop flag was set is over, with a positive batch size, a
\* successful login and no failed batch.
CancelledRunEnded ==
  /\ hist.stopClicks > 0
  /\ hist.batchSize > 0
  /\ hist.login = "ok"
  /\ ~PhaseFailed(hist)
  /\ ~ControlFlowInProgress
  /\ status \notin {IDLE, FAILED}

\* C36: the simulated and the Electron orchestrator end a run stopped at the
\* same point alike: whichever build runs, a run stopped during login, during
\* batch i, between batches or during the last batch ends with the status,
\* batchesCompleted and processedRecords with which the simulated orchestrator
\* ends it.
C36_SameOutcomeOnCancel ==
  LET nBatches == CeilDiv(hist.total, hist.batchSize)
      point == StopPoint(hist, nBatches)
  IN (CancelledRunEnded /\ point # "elsewhere") =>
       LET outcome == SimulatedOutcome(point, hist.stopAt.done, nBatches) IN
       /\ status = outcome.status
       /\ stats.batchesCompleted = outcome.batchesCompleted
       /\ stats.processedRecords =
            Min(hist.total, outcome.batchesCompleted * hist.batchSize)

\* ------------------------------------------------------------------ C37
\* The step in which the start-job handler sends the PAUSED status.
PausedSentStep ==
  /\ appMode = "electron"
  /\ mpc # "idle"
  /\ mpc' = "idle"
  /\ toRenderer' # << >>
  /\ toRenderer'[Len(toRenderer')].channel = "job-status"
  /\ toRenderer'[Len(toRenderer')].status = PAUSED

\* The Warning event of a stop is among the notifications in the queue, or has
\* reached the log of the run.
StopWarningSent(queue, log) ==
  \/ \E k \in 1..Len(queue) : /\ queue[k].channel = "job-log"
                              /\ queue[k].log.level = WARNING
                              /\ queue[k].log.step = "STOP"
  \/ \E k \in 1..Len(log) : log[k].level = WARNING /\ log[k].step = "STOP"

\* C37: when the start-job handler sends the PAUSED status, it has sent the
\* Warning event 'Job stopped by user.' in the same job before it, and at least
\* one batch of the job has not been processed.
C37_PausedAfterWarning ==
  [][ PausedSentStep =>
        (/\ StopWarningSent(toRenderer', logs')
         /\ UploadsDone(hist') < CeilDiv(hist'.total, hist'.batchSize)) ]_vars

\* ------------------------------------------------------------------ C38
TerminalNotification(msg) ==
  msg.channel = "job-status" /\ msg.status \in {COMPLETED, FAILED, PAUSED}

\* The notifications the step adds to the queue main -> renderer.
NewNotifications ==
  IF Len(toRenderer') > Len(toRenderer)
  THEN SubSeq(toRenderer', Len(toRenderer) + 1, Len(toRenderer'))
  ELSE << >>

\* C38: the start-job handler sends a terminal status (COMPLETED, FAILED or
\* PAUSED) in the step in which it returns and in no other, one per job and
\* as the last notification of the job; the main process sends nothing while
\* no job is being served; and every job comes to that step: the loop of a
\* job being served has a finite number of batches.
C38_OneTerminalNotification ==
  [][ LET new == NewNotifications
          terminals == { k \in 1..Len(new) : TerminalNotification(new[k]) }
      IN /\ (mpc = "idle" /\ mpc' = "idle") => new = << >>
         /\ (mpc # "idle" /\ mpc' = "idle") => terminals # {}
         /\ terminals # {} => (mpc # "idle" /\ mpc' = "idle" /\ terminals = {Len(new)})
         /\ mpc # "idle" => TotalBatches(mjob.parsedData, mjob.batchSize) < Infinity ]_vars

\* ------------------------------------------------------------------ C39
\* The condition under which the simulated login is to succeed.
LoginShouldSucceed(username, password, scenario) ==
  /\ scenario \notin {"ERROR_VPN", "ERROR_AUTH"}
  /\ ~Includes(username, Str_error)
  /\ Len(password) >= 4
  /\ \A word \in BadWords : ~Includes(ToLowerCase(password), word)

\* C39: a simulated login returns success exactly when the scenario is neither
\* ERROR_VPN nor ERROR_AUTH, the username does not contain 'error', and the
\* password has at least 4 characters and contains none of 'wrong', 'error',
\* 'fail', 'invalid' in any letter case.
C39_LoginSuccessCondition ==
  (Simulated /\ pc = "returned") =>
    (hist.login = "ok" <=> LoginShouldSucceed(job.username, job.password, job.scenario))

====
